---- MODULE Spec2Model ----
(***************************************************************************)
(* Model of the fixed-income-fund recommender pipeline (fif_recsys):       *)
(* the registry-driven Feature Engine, the three custom feature functions, *)
(* and the Score Engine, as state machines over in-memory tables.          *)
(*                                                                         *)
(* A table is [cols |-> sequence of column names, rows |-> sequence of     *)
(* rows], a row being a function from column name to cell.  Cells are      *)
(* tagged records, so that strings, numbers, NaN and infinities can live   *)
(* in one column as they do in a pandas object/float column.  Floats are   *)
(* modelled as exact rationals extended with NaN and +/-inf (IEEE          *)
(* division and NaN propagation, no rounding).                             *)
(***************************************************************************)
EXTENDS Integers, Sequences, FiniteSets, TLC

VARIABLES
    pc,         \* position of the running call
    caller_df,  \* the table object the caller holds
    df,         \* the table the running function works on
    registry,   \* the feature / score registry of the call
    call,       \* the function called and its extra arguments
    idx,        \* index of the registry entry the loop is at
    results,    \* Feature Engine: per-feature tables computed so far
    out,        \* the table returned (or being built) by the call
    err         \* the exception the call raised, NoError if none

vars == <<pc, caller_df, df, registry, call, idx, results, out, err>>

----------------------------------------------------------------------------
(* Cells and float arithmetic                                              *)

NaN == [k |-> "nan"]
Inf(s) == [k |-> "inf", s |-> s]
Str(s) == [k |-> "str", s |-> s]

Abs(n) == IF n < 0 THEN -n ELSE n
Sign(n) == IF n < 0 THEN -1 ELSE IF n = 0 THEN 0 ELSE 1

RECURSIVE GCD(_, _)
GCD(a, b) == IF b = 0 THEN a ELSE GCD(b, a % b)

\* the rational n/d in lowest terms with positive denominator
Q(n, d) ==
    LET g == GCD(Abs(n), Abs(d))
        s == IF d < 0 THEN -1 ELSE 1
    IN  [k |-> "q", n |-> (s * n) \div g, d |-> (s * d) \div g]

Num(n) == Q(n, 1)

IsNaN(a) == a.k = "nan"
IsInf(a) == a.k = "inf"
SignOf(a) == IF IsInf(a) THEN a.s ELSE Sign(a.n)

\* float addition
FAdd(a, b) ==
    IF IsNaN(a) \/ IsNaN(b) THEN NaN
    ELSE IF IsInf(a) /\ IsInf(b) THEN (IF a.s = b.s THEN a ELSE NaN)
    ELSE IF IsInf(a) THEN a
    ELSE IF IsInf(b) THEN b
    ELSE Q(a.n * b.d + b.n * a.d, a.d * b.d)

\* float multiplication
FMul(a, b) ==
    IF IsNaN(a) \/ IsNaN(b) THEN NaN
    ELSE IF IsInf(a) \/ IsInf(b)
         THEN (IF SignOf(a) = 0 \/ SignOf(b) = 0 THEN NaN
               ELSE Inf(SignOf(a) * SignOf(b)))
    ELSE Q(a.n * b.n, a.d * b.d)

FNeg(a) == FMul(Num(-1), a)
FSub(a, b) == FAdd(a, FNeg(b))

\* float division: x/0 is +/-inf, 0/0 is NaN, nothing raises
FDiv(a, b) ==
    IF IsNaN(a) \/ IsNaN(b) THEN NaN
    ELSE IF IsInf(b) THEN (IF IsInf(a) THEN NaN ELSE Num(0))
    ELSE IF IsInf(a) THEN Inf(IF b.n < 0 THEN -a.s ELSE a.s)
    ELSE IF b.n = 0 THEN (IF a.n = 0 THEN NaN ELSE Inf(Sign(a.n)))
    ELSE Q(a.n * b.d, a.d * b.n)

FLess(a, b) ==
    /\ ~IsNaN(a) /\ ~IsNaN(b)
    /\ IF IsInf(a) THEN a.s = -1 /\ ~(IsInf(b) /\ b.s = -1)
       ELSE IF IsInf(b) THEN b.s = 1
       ELSE a.n * b.d < b.n * a.d

\* pandas Series.sum(): NaN entries are skipped, the empty sum is 0
RECURSIVE SumSkipNa(_)
SumSkipNa(s) ==
    IF s = <<>> THEN Num(0)
    ELSE IF IsNaN(Head(s)) THEN SumSkipNa(Tail(s))
    ELSE FAdd(Head(s), SumSkipNa(Tail(s)))

\* pd.to_numeric(errors="coerce") on one cell
ParseNumber(s) == IF s = "1" THEN Num(1) ELSE NaN
to_numeric(c) == IF c.k = "str" THEN ParseNumber(c.s) ELSE c

----------------------------------------------------------------------------
(* Tables                                                                  *)

Range(s) == {s[i] : i \in DOMAIN s}
MapSeq(s, F(_)) == [i \in DOMAIN s |-> F(s[i])]

HasCol(t, c) == c \in Range(t.cols)
Column(t, c) == [i \in DOMAIN t.rows |-> t.rows[i][c]]

\* df[c] = series : replaces the column, or appends it as the last column
SetCol(t, c, series) ==
    [cols |-> IF HasCol(t, c) THEN t.cols ELSE Append(t.cols, c),
     rows |-> [i \in DOMAIN t.rows |->
                 [x \in DOMAIN t.rows[i] \cup {c} |->
                    IF x = c THEN series[i] ELSE t.rows[i][x]]]]

\* DataFrame.copy()
Copy(t) == t

(* Sort order of the string values that occur as group-key parts: groupby   *)
(* returns its groups sorted by key.                                       *)
StrOrder == <<"202501", "202502", "E1", "E2", "E3", "F1", "F2">>
Rank(s) == CHOOSE i \in DOMAIN StrOrder : StrOrder[i] = s

KeyOf(row, keys) == [j \in DOMAIN keys |-> row[keys[j]]]
KeyValid(key) == \A j \in DOMAIN key : key[j].k = "str"
KeyLess(a, b) ==
    \E j \in DOMAIN a :
        /\ \A i \in 1..(j - 1) : a[i] = b[i]
        /\ Rank(a[j].s) < Rank(b[j].s)

RECURSIVE SortKeys(_)
SortKeys(K) ==
    IF K = {} THEN <<>>
    ELSE LET m == CHOOSE m \in K : \A o \in K \ {m} : KeyLess(m, o)
         IN  <<m>> \o SortKeys(K \ {m})

\* df.groupby(keys): the group keys in sorted order; rows with a missing key
\* part belong to no group (dropna=True)
GroupKeysOf(t, keys) ==
    SortKeys({k \in {KeyOf(t.rows[i], keys) : i \in DOMAIN t.rows} : KeyValid(k)})

\* the values of column c in the rows of one group
GroupColumn(t, keys, key, c) ==
    LET sel == SelectSeq(t.rows, LAMBDA r : KeyOf(r, keys) = key)
    IN  [i \in DOMAIN sel |-> sel[i][c]]

\* a per-group table: the key columns plus one value column
KeyedTable(keys, gkeys, name, Val(_)) ==
    [cols |-> Append(keys, name),
     rows |-> [i \in DOMAIN gkeys |->
                 [x \in Range(keys) \cup {name} |->
                    IF x = name THEN Val(gkeys[i])
                    ELSE gkeys[i][CHOOSE j \in DOMAIN keys : keys[j] = x]]]]

\* the row of a per-group table that holds the key, 0 if none
RowOfKeyIn(t, keys, key) ==
    IF \E i \in DOMAIN t.rows : KeyOf(t.rows[i], keys) = key
    THEN CHOOSE i \in DOMAIN t.rows : KeyOf(t.rows[i], keys) = key
    ELSE 0

\* the group keys a table holds, as a set
KeySet(t, keys) == {KeyOf(t.rows[i], keys) : i \in DOMAIN t.rows}

----------------------------------------------------------------------------
(* Custom feature functions                                                *)

group_keys == <<"CNPJ_FUNDO_CLASSE", "competencia">>

NUM_COLS == <<"VL_MERC_POS_FINAL">>

\* for c in NUM_COLS: if c in df.columns: df[c] = pd.to_numeric(df[c], "coerce")
RECURSIVE CoerceCols(_, _)
CoerceCols(t, cs) ==
    IF cs = <<>> THEN t
    ELSE LET c == Head(cs)
             u == IF HasCol(t, c)
                  THEN SetCol(t, c, MapSeq(Column(t, c), to_numeric))
                  ELSE t
         IN  CoerceCols(u, Tail(cs))

\* s.isin(values).astype(int) on one cell
isin(c, values) == IF c.k = "str" /\ c.s \in Range(values) THEN Num(1) ELSE Num(0)

\* the caller's table after _credito_share_feature_fn ran on it
credito_share_df(t, credito_list) ==
    LET u == CoerceCols(t, NUM_COLS)
    IN  SetCol(u, "is_credito",
               MapSeq(Column(u, "TP_APLIC"), LAMBDA c : isin(c, credito_list)))

\* ShareOf with the indicator left out of the numerator
ShareOf_NoIndicator(t, keys, key, ind) ==
    LET v == GroupColumn(t, keys, key, "VL_MERC_POS_FINAL")
    IN  FDiv(SumSkipNa(v), SumSkipNa(v))

\* sum over a group of value * indicator, and of value
ShareOf(t, keys, key, ind) ==
    LET v == GroupColumn(t, keys, key, "VL_MERC_POS_FINAL")
        f == GroupColumn(t, keys, key, ind)
        num == SumSkipNa([i \in DOMAIN v |-> FMul(v[i], f[i])])
        denom == SumSkipNa(v)
    IN  FDiv(num, denom)

_credito_share_feature_fn(t, keys, credito_list) ==
    LET u == credito_share_df(t, credito_list)
    IN  KeyedTable(keys, GroupKeysOf(u, keys), "credito_share",
                   LAMBDA key : ShareOf(u, keys, key, "is_credito"))

\* the caller's table after _related_party_share_feature_fn ran on it
related_party_share_df(t) ==
    LET u == CoerceCols(t, NUM_COLS)
    IN  SetCol(u, "is_related",
               MapSeq(Column(u, "EMISSOR_LIGADO"),
                      LAMBDA c : IF c = Str("S") THEN Num(1) ELSE Num(0)))

_related_party_share_feature_fn(t, keys) ==
    LET u == related_party_share_df(t)
    IN  KeyedTable(keys, GroupKeysOf(u, keys), "related_party_share",
                   LAMBDA key : ShareOf(u, keys, key, "is_related"))

\* the caller's table after _hhi_feature_fn ran on it
hhi_df(t) == CoerceCols(t, NUM_COLS)

\* pos: summed position value of one (group, issuer)
IssuerPos(t, keys, ikey) ==
    SumSkipNa(GroupColumn(t, Append(keys, "CPF_CNPJ_EMISSOR"), ikey, "VL_MERC_POS_FINAL"))

\* the (group, issuer) keys of one group, in order
IssuersOf(t, keys, key) ==
    SelectSeq(GroupKeysOf(t, Append(keys, "CPF_CNPJ_EMISSOR")),
              LAMBDA ik : SubSeq(ik, 1, Len(keys)) = key)

\* weight = pos / pos.sum() within the group
IssuerWeights(t, keys, key) ==
    LET iks == IssuersOf(t, keys, key)
        pos == [i \in DOMAIN iks |-> IssuerPos(t, keys, iks[i])]
        total == SumSkipNa(pos)
    IN  [i \in DOMAIN pos |-> FDiv(pos[i], total)]

\* HhiOf with the weights summed unsquared
HhiOf_NotSquared(t, keys, key) == SumSkipNa(IssuerWeights(t, keys, key))

\* np.sum(weight ** 2) of a pandas Series: Series.sum, which skips NaN
HhiOf(t, keys, key) ==
    LET w == IssuerWeights(t, keys, key)
    IN  SumSkipNa([i \in DOMAIN w |-> FMul(w[i], w[i])])

_hhi_feature_fn(t, keys) ==
    LET u == hhi_df(t)
        gkeys == SelectSeq(GroupKeysOf(u, keys),
                           LAMBDA key : IssuersOf(u, keys, key) # <<>>)
    IN  KeyedTable(keys, gkeys, "issuer_hhi", LAMBDA key : HhiOf(u, keys, key))

----------------------------------------------------------------------------
(* Raw disclosure tables                                                   *)

MaxRows == 3

Funds == {"F1", "F2"}

(* The assets a fund can hold: each has its issuer, its asset type and its *)
(* related-party flag; a government bond has no issuer identifier.         *)
Assets ==
    { [CD_ATIVO |-> Str("A1"), CPF_CNPJ_EMISSOR |-> Str("E1"),
       TP_APLIC |-> Str("Deb"), EMISSOR_LIGADO |-> Str("N")],
      [CD_ATIVO |-> Str("A2"), CPF_CNPJ_EMISSOR |-> Str("E2"),
       TP_APLIC |-> Str("CRI"), EMISSOR_LIGADO |-> Str("S")],
      [CD_ATIVO |-> Str("A3"), CPF_CNPJ_EMISSOR |-> Str("E3"),
       TP_APLIC |-> Str("Tes"), EMISSOR_LIGADO |-> Str("S")],
      [CD_ATIVO |-> Str("A4"), CPF_CNPJ_EMISSOR |-> NaN,
       TP_APLIC |-> Str("Tes"), EMISSOR_LIGADO |-> Str("N")] }

\* position values: numbers (a short position is negative), a number read as
\* text, and a cell that does not parse as a number
PosValues == {Str("x"), Str("1"), Num(-1), Num(0)}

RawCols ==
    <<"CNPJ_FUNDO_CLASSE", "competencia", "CD_ATIVO", "CPF_CNPJ_EMISSOR",
      "TP_APLIC", "EMISSOR_LIGADO", "VL_MERC_POS_FINAL">>

RawRow(f, a, v) ==
    [c \in Range(RawCols) |->
        IF c = "CNPJ_FUNDO_CLASSE" THEN Str(f)
        ELSE IF c = "competencia" THEN Str("202501")
        ELSE IF c = "VL_MERC_POS_FINAL" THEN v
        ELSE a[c]]

RawRows(assets, values) == {RawRow(f, a, v) : f \in Funds, a \in assets, v \in values}

\* Position of a raw row in the catalogue order fund, asset, value
RowIndex(r) ==
    LET v == r["VL_MERC_POS_FINAL"]
    IN  <<Rank(r["CNPJ_FUNDO_CLASSE"].s),
          CHOOSE i \in 1..4 : r["CD_ATIVO"] = Str(<<"A1", "A2", "A3", "A4">>[i]),
          IF v = Str("x") THEN -9 ELSE IF v.k = "str" THEN -8 ELSE v.n>>

RowLeq(a, b) ==
    LET x == RowIndex(a)
        y == RowIndex(b)
    IN  \/ x[1] < y[1]
        \/ x[1] = y[1] /\ x[2] < y[2]
        \/ x[1] = y[1] /\ x[2] = y[2] /\ x[3] <= y[3]

(* The raw tables of 1..n of the given rows.  Every operation of the pipeline groups by *)
(* key and returns its groups sorted, so a table is taken with its rows in *)
(* catalogue order: one table for each multiset of rows.                   *)
RawTables(rows, n) ==
    {[cols |-> RawCols, rows |-> r] :
        r \in {s \in UNION {[1..m -> rows] : m \in 1..n} :
                  \A i \in 1..(Len(s) - 1) : RowLeq(s[i], s[i + 1])}}

NoError == [type |-> "none"]
NoTable == [cols |-> <<>>, rows |-> <<>>]

----------------------------------------------------------------------------
(* Direct calls of the custom feature functions                            *)

CreditoLists == {<<"Deb", "CRI">>, <<"Tes">>}

CustomCalls ==
    {[fn |-> "credito_share_feature_fn", args |-> <<l>>] : l \in CreditoLists}
    \cup {[fn |-> "related_party_share_feature_fn", args |-> <<>>],
          [fn |-> "hhi_feature_fn", args |-> <<>>]}

\* func(df, group_keys, *args): the table returned
CustomResult(fn, t, keys, args) ==
    IF fn = "credito_share_feature_fn" THEN _credito_share_feature_fn(t, keys, args[1])
    ELSE IF fn = "related_party_share_feature_fn" THEN _related_party_share_feature_fn(t, keys)
    ELSE _hhi_feature_fn(t, keys)

\* func(df, group_keys, *args): the table df after the call
CustomEffect(fn, t, args) ==
    IF fn = "credito_share_feature_fn" THEN credito_share_df(t, args[1])
    ELSE IF fn = "related_party_share_feature_fn" THEN related_party_share_df(t)
    ELSE hhi_df(t)

InitCustom ==
    /\ pc = "call"
    /\ caller_df \in RawTables(RawRows(Assets, PosValues), MaxRows)
    /\ df = caller_df
    /\ call \in CustomCalls
    /\ registry = <<>>
    /\ idx = 0
    /\ results = <<>>
    /\ out = NoTable
    /\ err = NoError

\* out = fn(df, group_keys, *args), df being the caller's own table
CallCustom ==
    /\ pc = "call"
    /\ out' = CustomResult(call.fn, df, group_keys, call.args)
    /\ df' = CustomEffect(call.fn, df, call.args)
    /\ caller_df' = df'
    /\ pc' = "done"
    /\ UNCHANGED <<registry, call, idx, results, err>>

NextCustom == CallCustom

SpecCustom == InitCustom /\ [][NextCustom]_vars

----------------------------------------------------------------------------
(* The method registry and the Feature Engine                              *)

FEATURE_ENGINE ==
    [m \in {"max", "sum", "nunique", "isin", "credito_share_feature_fn",
            "related_party_share_feature_fn", "hhi_feature_fn",
            "clip", "log", "coalesce"} |->
        [type |-> IF m \in {"max", "sum", "nunique"} THEN "aggregation"
                  ELSE IF m = "isin" THEN "row_operation"
                  ELSE IF m \in {"clip", "log", "coalesce"} THEN "adjustment"
                  ELSE "custom"]]

ValueError(what, name) == [type |-> "ValueError", what |-> what, name |-> name]
KeyError(name) == [type |-> "KeyError", what |-> "column", name |-> name]
TypeError(name) == [type |-> "TypeError", what |-> "arguments", name |-> name]
IndexError == [type |-> "IndexError", what |-> "index", name |-> ""]
AttributeError(name) == [type |-> "AttributeError", what |-> "items", name |-> name]

\* the largest cell of a non-empty set of numbers
MaxOf(S) == CHOOSE m \in S : \A o \in S : ~FLess(m, o)

\* the registered reducers ("function"/"pandas") applied to one series
Reduce(method, cells) ==
    LET nums == {to_numeric(cells[i]) : i \in DOMAIN cells}
    IN  IF method = "sum" THEN SumSkipNa(MapSeq(cells, to_numeric))
        ELSE IF method = "max"
             THEN (IF nums \ {NaN} = {} THEN NaN ELSE MaxOf(nums \ {NaN}))
        ELSE Num(Cardinality(Range(cells) \ {NaN}))

\* natural logarithm of 1 + x, kept symbolic where it is irrational
log1p(a) ==
    IF IsNaN(a) THEN NaN
    ELSE IF IsInf(a) THEN (IF a.s = 1 THEN a ELSE NaN)
    ELSE IF a.k = "log1p" THEN [k |-> "log1p", a |-> a]
    ELSE IF a.n = 0 THEN Num(0)
    ELSE IF a.n = -a.d THEN Inf(-1)
    ELSE IF a.n < -a.d THEN NaN
    ELSE [k |-> "log1p", a |-> a]

\* s.clip(0, 1) on one cell; log1p(x) >= 1 iff x >= e - 1, and 1.718 < e - 1 < 1.719
clip(a) ==
    IF IsNaN(a) THEN NaN
    ELSE IF IsInf(a) THEN (IF a.s = 1 THEN Num(1) ELSE Num(0))
    ELSE IF a.k = "log1p"
         THEN (IF FLess(a.a, Num(0)) THEN Num(0)
               ELSE IF FLess(Q(1718, 1000), a.a) THEN Num(1)
               ELSE a)
    ELSE IF FLess(a, Num(0)) THEN Num(0)
    ELSE IF FLess(Num(1), a) THEN Num(1)
    ELSE a

\* s.fillna(0) on one cell
coalesce(a) == IF IsNaN(a) THEN Num(0) ELSE a

\* feature_engine[adj]["function"]["pandas"](series): the registered function
\* is called with the feature column as its only argument, whatever its type
AdjustColumn(adj, series) ==
    IF adj = "clip" THEN MapSeq(series, clip)
    ELSE IF adj = "log" THEN MapSeq(MapSeq(series, to_numeric), log1p)
    ELSE IF adj = "coalesce" THEN MapSeq(series, coalesce)
    ELSE [i \in DOMAIN series |-> Reduce(adj, series)]

\* the exception raised by one adjustment of the feature column, if any
AdjustError(agg, feat_name, adj) ==
    IF adj \notin DOMAIN FEATURE_ENGINE THEN ValueError("adjustment_not_found", adj)
    ELSE IF ~HasCol(agg, feat_name) THEN KeyError(feat_name)
    ELSE IF FEATURE_ENGINE[adj].type \in {"row_operation", "custom"} THEN TypeError(adj)
    ELSE NoError

\* ApplyAdjustments that starts with the last adjustment of the list
RECURSIVE ApplyAdjustments_Reversed(_, _, _)
ApplyAdjustments_Reversed(agg, feat_name, adjustments) ==
    IF adjustments = <<>> THEN [err |-> NoError, agg |-> agg]
    ELSE LET adj == adjustments[Len(adjustments)]
             e == AdjustError(agg, feat_name, adj)
         IN  IF e # NoError THEN [err |-> e, agg |-> agg]
             ELSE ApplyAdjustments_Reversed(
                      SetCol(agg, feat_name, AdjustColumn(adj, Column(agg, feat_name))),
                      feat_name, SubSeq(adjustments, 1, Len(adjustments) - 1))

\* for adj in adjustments: df_agg[feat_name] = adj_func(df_agg[feat_name])
RECURSIVE ApplyAdjustments(_, _, _)
ApplyAdjustments(agg, feat_name, adjustments) ==
    IF adjustments = <<>> THEN [err |-> NoError, agg |-> agg]
    ELSE LET adj == Head(adjustments)
             e == AdjustError(agg, feat_name, adj)
         IN  IF e # NoError THEN [err |-> e, agg |-> agg]
             ELSE ApplyAdjustments(
                      SetCol(agg, feat_name, AdjustColumn(adj, Column(agg, feat_name))),
                      feat_name, Tail(adjustments))

\* MethodError without the membership test
MethodError_Unchecked(feat_cfg) == NoError

\* if method not in feature_engine: raise ValueError
MethodError(feat_cfg) ==
    IF feat_cfg.method \notin DOMAIN FEATURE_ENGINE
    THEN ValueError("method_not_found", feat_cfg.method)
    ELSE NoError

\* the type the dispatch sees ("none" stands for a name without an entry)
MethodType(method) ==
    IF method \in DOMAIN FEATURE_ENGINE THEN FEATURE_ENGINE[method].type ELSE "none"

\* number of positional arguments a custom function takes after (df, group_keys)
CustomArity(method) == IF method = "credito_share_feature_fn" THEN 1 ELSE 0

\* the exception raised by the dispatch on the method type, if any
DispatchError(t, feat_cfg) ==
    LET ty == MethodType(feat_cfg.method)
    IN  IF ty \in {"aggregation", "row_operation"}
        THEN (IF Len(feat_cfg.args) < (IF ty = "aggregation" THEN 1 ELSE 2)
              THEN IndexError
              ELSE IF ~HasCol(t, feat_cfg.args[1]) THEN KeyError(feat_cfg.args[1])
              ELSE NoError)
        ELSE IF ty = "custom"
        THEN (IF Len(feat_cfg.args) # CustomArity(feat_cfg.method)
              THEN TypeError(feat_cfg.method) ELSE NoError)
        ELSE ValueError("unknown_method_type", ty)

\* df_agg of one feature, before its adjustments
FeatureTable(t, keys, feat_name, feat_cfg) ==
    LET ty == MethodType(feat_cfg.method)
        gkeys == GroupKeysOf(t, keys)
    IN  IF ty = "aggregation"
        THEN KeyedTable(keys, gkeys, feat_name,
                 LAMBDA key : Reduce(feat_cfg.method,
                                     GroupColumn(t, keys, key, feat_cfg.args[1])))
        ELSE IF ty = "row_operation"
        THEN KeyedTable(keys, gkeys, feat_name,
                 LAMBDA key : SumSkipNa(MapSeq(GroupColumn(t, keys, key, feat_cfg.args[1]),
                                               LAMBDA c : isin(c, feat_cfg.args[2]))))
        ELSE CustomResult(feat_cfg.method, t, keys, feat_cfg.args)

\* the engine's table df after the feature was computed: aggregations and row
\* operations leave it alone, a custom function works on it in place
FeatureEffect(t, feat_cfg) ==
    IF MethodType(feat_cfg.method) = "custom"
    THEN CustomEffect(feat_cfg.method, t, feat_cfg.args)
    ELSE t

\* one iteration of the loop over registry.items()
ComputeFeature(t, keys, feat_cfg) ==
    LET e1 == MethodError(feat_cfg)
        e2 == DispatchError(t, feat_cfg)
    IN  IF e1 # NoError THEN [err |-> e1, df |-> t, agg |-> NoTable]
        ELSE IF e2 # NoError THEN [err |-> e2, df |-> t, agg |-> NoTable]
        ELSE LET a == ApplyAdjustments(FeatureTable(t, keys, feat_cfg.name, feat_cfg),
                                       feat_cfg.name, feat_cfg.adjustment)
             IN  [err |-> a.err, df |-> FeatureEffect(t, feat_cfg), agg |-> a.agg]

\* MergeLeft with how="inner": left rows without a match are dropped
MergeInner(left, right, keys) ==
    LET both == (Range(left.cols) \cap Range(right.cols)) \ Range(keys)
        lname(c) == IF c \in both THEN c \o "_x" ELSE c
        rname(c) == IF c \in both THEN c \o "_y" ELSE c
        rcols == SelectSeq(right.cols, LAMBDA c : c \notin Range(keys))
        cols == MapSeq(left.cols, lname) \o MapSeq(rcols, rname)
        match(r) == RowOfKeyIn(right, keys, KeyOf(r, keys))
        lrows == SelectSeq(left.rows, LAMBDA r : match(r) # 0)
    IN  [cols |-> cols,
         rows |-> [i \in DOMAIN lrows |->
                     [x \in Range(cols) |->
                        IF \E c \in Range(left.cols) : lname(c) = x
                        THEN lrows[i][CHOOSE c \in Range(left.cols) : lname(c) = x]
                        ELSE right.rows[match(lrows[i])]
                                 [CHOOSE c \in Range(rcols) : rname(c) = x]]]]

\* final.merge(partial, on=group_keys, how="left"): columns that both sides
\* have besides the keys get the suffixes _x and _y
MergeLeft(left, right, keys) ==
    LET both == (Range(left.cols) \cap Range(right.cols)) \ Range(keys)
        lname(c) == IF c \in both THEN c \o "_x" ELSE c
        rname(c) == IF c \in both THEN c \o "_y" ELSE c
        rcols == SelectSeq(right.cols, LAMBDA c : c \notin Range(keys))
        cols == MapSeq(left.cols, lname) \o MapSeq(rcols, rname)
        match(r) == RowOfKeyIn(right, keys, KeyOf(r, keys))
    IN  [cols |-> cols,
         rows |-> [i \in DOMAIN left.rows |->
                     [x \in Range(cols) |->
                        IF \E c \in Range(left.cols) : lname(c) = x
                        THEN left.rows[i][CHOOSE c \in Range(left.cols) : lname(c) = x]
                        ELSE IF match(left.rows[i]) = 0 THEN NaN
                        ELSE right.rows[match(left.rows[i])]
                                 [CHOOSE c \in Range(rcols) : rname(c) = x]]]]

\* final = results[0]; for partial in results[1:]: final = final.merge(...)
RECURSIVE MergeAll(_, _, _)
MergeAll(final, partials, keys) ==
    IF partials = <<>> THEN final
    ELSE MergeAll(MergeLeft(final, Head(partials), keys), Tail(partials), keys)

----------------------------------------------------------------------------
(* compute_features_from_df: one call of the Feature Engine                *)

MaxFeatures == 2
MaxEngineRows == 2

Feat(name, method, args, adjustment) ==
    [name |-> name, method |-> method, args |-> args, adjustment |-> adjustment]

(* The feature definitions a registry is made of: every method type, custom *)
(* functions under their own and under another feature name, names without *)
(* a registry entry, and adjustment lists in both orders.                  *)
FeatureDefs ==
    { Feat("max_pos", "max", <<"VL_MERC_POS_FINAL">>, <<>>),
      Feat("n_values", "nunique", <<"VL_MERC_POS_FINAL">>, <<"log", "clip">>),
      Feat("n_credito", "isin", <<"TP_APLIC", <<"Deb", "CRI">>>>, <<"clip", "log">>),
      Feat("credito_share", "credito_share_feature_fn", <<<<"Deb", "CRI">>>>, <<"coalesce">>),
      Feat("credit", "credito_share_feature_fn", <<<<"Deb", "CRI">>>>, <<>>),
      Feat("related", "related_party_share_feature_fn", <<>>, <<"coalesce">>),
      Feat("issuer_hhi", "hhi_feature_fn", <<>>, <<>>),
      Feat("median_pos", "median", <<"VL_MERC_POS_FINAL">>, <<>>),
      Feat("clipped", "clip", <<"VL_MERC_POS_FINAL">>, <<>>),
      Feat("total", "sum", <<"VL_MERC_POS_FINAL">>, <<"sum">>),
      Feat("total_abs", "sum", <<"VL_MERC_POS_FINAL">>, <<"abs">>),
      Feat("total_in", "sum", <<"VL_MERC_POS_FINAL">>, <<"coalesce", "isin">>) }

\* a registry: feature definitions under distinct names, in mapping order
Registries(n) ==
    {r \in UNION {[1..m -> FeatureDefs] : m \in 1..n} :
        \A i, j \in DOMAIN r : i # j => r[i].name # r[j].name}

EngineAssets == {a \in Assets : a.CD_ATIVO \in {Str("A2"), Str("A4")}}
EngineValues == {Str("x"), Num(2)}

EngineTables(n) == RawTables(RawRows(EngineAssets, EngineValues), n)

InitFeature ==
    /\ pc = "start"
    /\ caller_df \in EngineTables(MaxEngineRows)
    /\ df = NoTable
    /\ call = [fn |-> "compute_features_from_df", args |-> <<>>]
    /\ registry \in Registries(MaxFeatures)
    /\ idx = 0
    /\ results = <<>>
    /\ out = NoTable
    /\ err = NoError

\* df = df.copy(); build the engine; enter compute_features
FeatureStart ==
    /\ pc = "start"
    /\ df' = Copy(caller_df)
    /\ idx' = 1
    /\ pc' = "loop"
    /\ UNCHANGED <<caller_df, registry, call, results, out, err>>

\* one iteration of the loop that ends with results.append(df_agg)
FeatureStep ==
    /\ pc = "loop"
    /\ idx <= Len(registry)
    /\ LET c == ComputeFeature(df, group_keys, registry[idx])
       IN  /\ c.err = NoError
           /\ df' = c.df
           /\ results' = Append(results, c.agg)
    /\ idx' = idx + 1
    /\ UNCHANGED <<pc, caller_df, registry, call, out, err>>

\* one iteration of the loop that raises: the call ends without a table
FeatureRaise ==
    /\ pc = "loop"
    /\ idx <= Len(registry)
    /\ LET c == ComputeFeature(df, group_keys, registry[idx])
       IN  /\ c.err # NoError
           /\ df' = c.df
           /\ err' = c.err
    /\ pc' = "raised"
    /\ UNCHANGED <<caller_df, registry, call, idx, results, out>>

\* the merge of the per-feature tables and the return
FeatureMerge ==
    /\ pc = "loop"
    /\ idx > Len(registry)
    /\ out' = MergeAll(Head(results), Tail(results), group_keys)
    /\ pc' = "done"
    /\ UNCHANGED <<caller_df, df, registry, call, idx, results, err>>

NextFeature == FeatureStart \/ FeatureStep \/ FeatureRaise \/ FeatureMerge

SpecFeature == InitFeature /\ [][NextFeature]_vars

----------------------------------------------------------------------------
(* The Score Engine: compute_scores_from_df                                *)

MaxScores == 2
MaxScoreRows == 3

\* the epsilon added to the standard deviation
ZEps == Q(1, 1000000)

\* number of entries of a series that are not NaN
CountNotNa(s) == Cardinality({i \in DOMAIN s : ~IsNaN(s[i])})

\* Mean dividing by the length of the series, NaN entries included
Mean_CountAll(s) == IF CountNotNa(s) = 0 THEN NaN ELSE FDiv(SumSkipNa(s), Num(Len(s)))

\* Series.mean(): NaN entries are skipped, NaN if nothing is left
Mean(s) == IF CountNotNa(s) = 0 THEN NaN ELSE FDiv(SumSkipNa(s), Num(CountNotNa(s)))

\* Variance with ddof = 0: the population variance, 0 for a single entry
Variance_Population(s) ==
    IF CountNotNa(s) < 1 THEN NaN
    ELSE LET d == [i \in DOMAIN s |-> FSub(s[i], Mean(s))]
         IN  FDiv(SumSkipNa([i \in DOMAIN s |-> FMul(d[i], d[i])]),
                  Num(CountNotNa(s)))

\* the square of Series.std(): sample variance (ddof = 1) of the entries that
\* are not NaN, NaN when fewer than two are left
Variance(s) ==
    IF CountNotNa(s) < 2 THEN NaN
    ELSE LET d == [i \in DOMAIN s |-> FSub(s[i], Mean(s))]
         IN  FDiv(SumSkipNa([i \in DOMAIN s |-> FMul(d[i], d[i])]),
                  Num(CountNotNa(s) - 1))

(* The cell dev / (sqrt(var) + eps).  A zero deviation gives the number 0;  *)
(* any other quotient is kept as the triple it is computed from, the       *)
(* square root being irrational in general.                                *)
ZCell(dev, var) ==
    IF IsNaN(dev) \/ IsNaN(var) THEN NaN
    ELSE IF dev = Num(0) THEN Num(0)
    ELSE [k |-> "z", dev |-> dev, var |-> var, eps |-> ZEps]

\* (s - s.mean()) / (s.std() + 1e-6)
_zscore(s) == [i \in DOMAIN s |-> ZCell(FSub(s[i], Mean(s)), Variance(s))]

\* invert that leaves the cell as it is
invert_Identity(a) == a

\* -1 * cell
invert(a) ==
    IF a.k = "z" THEN [a EXCEPT !.dev = FNeg(a.dev)] ELSE FNeg(a)

\* out.groupby(group_by)[feat].transform(_zscore): each row gets the z-score
\* of its value within the rows that share its group_by value
GroupTransform(t, group_by, feat) ==
    [i \in DOMAIN t.rows |->
        IF t.rows[i][group_by].k # "str" THEN NaN
        ELSE LET members == SelectSeq([j \in DOMAIN t.rows |-> j],
                                LAMBDA j : t.rows[j][group_by] = t.rows[i][group_by])
                 z == _zscore([m \in DOMAIN members |-> t.rows[members[m]][feat]])
             IN  z[CHOOSE m \in DOMAIN members : members[m] = i]]

\* the adjustments of a score: invert first, then coalesce
AdjustScore(series, adjustment) ==
    LET inv == IF "invert" \in Range(adjustment) THEN MapSeq(series, invert) ELSE series
    IN  IF "coalesce" \in Range(adjustment) THEN MapSeq(inv, coalesce) ELSE inv

\* ScoreColumn that applies the adjustments to the NaN column of an absent feature
ScoreColumn_NoContinue(t, cfg, group_by) ==
    AdjustScore(IF ~HasCol(t, cfg.feature)
                THEN [i \in DOMAIN t.rows |-> NaN]
                ELSE GroupTransform(t, group_by, cfg.feature),
                cfg.adjustment)

\* the score column of one zscore definition
ScoreColumn(t, cfg, group_by) ==
    IF ~HasCol(t, cfg.feature)
    THEN [i \in DOMAIN t.rows |-> NaN]
    ELSE AdjustScore(GroupTransform(t, group_by, cfg.feature), cfg.adjustment)

\* cfg.get("type") of a definition that has no type
None == "None"

\* ScoreError that accepts every score type
ScoreError_AnyType(cfg) == NoError

\* the exception one score definition raises, if any
ScoreError(cfg) ==
    IF cfg.type = "zscore" THEN NoError
    ELSE ValueError("unsupported_score_type", cfg.type)

Score(name, type, feature, adjustment) ==
    [name |-> name, type |-> type, feature |-> feature, adjustment |-> adjustment]

ScoreNames == <<"size_score", "credit_risk_score", "liquidity_score">>

\* what a score definition can say besides its name; "issuer_hhi" is a
\* feature the table does not have, "percentile" a type the engine lacks,
\* None the type of a definition without one
ScoreCfgs ==
    {[type |-> "zscore", feature |-> f, adjustment |-> a] :
        f \in {"log_aum", "issuer_hhi"},
        a \in {<<>>, <<"invert">>, <<"coalesce">>, <<"invert", "coalesce">>}}
    \cup {[type |-> "percentile", feature |-> "log_aum", adjustment |-> <<>>],
          [type |-> None, feature |-> "log_aum", adjustment |-> <<>>]}

ScoreRegistries(n) ==
    UNION {{[i \in 1..m |-> Score(ScoreNames[i], c[i].type, c[i].feature, c[i].adjustment)] :
               c \in [1..m -> ScoreCfgs]} : m \in 1..n}

FeatureValues == {NaN, Num(0), Num(2)}
Periods == {"202501", "202502"}
FundIds == <<"F1", "F2", "F3", "F4", "F5">>
FeatureCols == <<"CNPJ_FUNDO_CLASSE", "competencia", "log_aum">>

\* feature tables of 1..n rows, one fund per row, rows in the order period, value
FeatureTables(n) ==
    LET cells == Periods \X FeatureValues
        ord(c) == <<Rank(c[1]), IF IsNaN(c[2]) THEN -1 ELSE c[2].n>>
        leq(a, b) == ord(a)[1] < ord(b)[1]
                     \/ (ord(a)[1] = ord(b)[1] /\ ord(a)[2] <= ord(b)[2])
    IN  {[cols |-> FeatureCols,
          rows |-> [i \in DOMAIN s |->
                      [c \in Range(FeatureCols) |->
                          IF c = "CNPJ_FUNDO_CLASSE" THEN Str(FundIds[i])
                          ELSE IF c = "competencia" THEN Str(s[i][1])
                          ELSE s[i][2]]]] :
            s \in {q \in UNION {[1..m -> cells] : m \in 1..n} :
                      \A i \in 1..(Len(q) - 1) : leq(q[i], q[i + 1])}}

InitScore ==
    /\ pc = "start"
    /\ caller_df \in FeatureTables(MaxScoreRows)
    /\ df = NoTable
    /\ call = [fn |-> "compute_scores_from_df", args |-> <<"competencia">>]
    /\ registry \in ScoreRegistries(MaxScores)
    /\ idx = 0
    /\ results = <<>>
    /\ out = NoTable
    /\ err = NoError

\* out = df.copy()
ScoreStart ==
    /\ pc = "start"
    /\ out' = Copy(caller_df)
    /\ idx' = 1
    /\ pc' = "loop"
    /\ UNCHANGED <<caller_df, df, registry, call, results, err>>

\* one iteration of the loop for a supported score type
ScoreStep ==
    /\ pc = "loop"
    /\ idx <= Len(registry)
    /\ ScoreError(registry[idx]) = NoError
    /\ out' = SetCol(out, registry[idx].name,
                     ScoreColumn(out, registry[idx], call.args[1]))
    /\ idx' = idx + 1
    /\ UNCHANGED <<pc, caller_df, df, registry, call, results, err>>

\* raise ValueError(f"Unsupported score type: {score_type}")
ScoreRaise ==
    /\ pc = "loop"
    /\ idx <= Len(registry)
    /\ ScoreError(registry[idx]) # NoError
    /\ err' = ScoreError(registry[idx])
    /\ pc' = "raised"
    /\ UNCHANGED <<caller_df, df, registry, call, idx, results, out>>

\* return out
ScoreReturn ==
    /\ pc = "loop"
    /\ idx > Len(registry)
    /\ pc' = "done"
    /\ UNCHANGED <<caller_df, df, registry, call, idx, results, out, err>>

NextScore == ScoreStart \/ ScoreStep \/ ScoreRaise \/ ScoreReturn

SpecScore == InitScore /\ [][NextScore]_vars

----------------------------------------------------------------------------
(* Claims about the custom feature functions (SpecCustom)                  *)

ShareFns == {"credito_share_feature_fn", "related_party_share_feature_fn"}
ShareColumn == IF call.fn = "credito_share_feature_fn" THEN "credito_share"
               ELSE "related_party_share"

\* the rows of the caller's table that belong to the group
RowsOfGroup(key) == SelectSeq(caller_df.rows, LAMBDA r : KeyOf(r, group_keys) = key)

\* the share function's indicator of a raw row
Indicated(r) ==
    IF call.fn = "credito_share_feature_fn"
    THEN r["TP_APLIC"].k = "str" /\ r["TP_APLIC"].s \in Range(call.args[1])
    ELSE r["EMISSOR_LIGADO"] = Str("S")

\* the group's summed position value, unparsable and missing cells left out
GroupTotal(key) ==
    SumSkipNa(MapSeq(MapSeq(RowsOfGroup(key), LAMBDA r : r["VL_MERC_POS_FINAL"]),
                     to_numeric))

AllIndicated(key) == \A r \in Range(RowsOfGroup(key)) : Indicated(r)
NoneIndicated(key) == \A r \in Range(RowsOfGroup(key)) : ~Indicated(r)
HasUnparsable(key) ==
    \E r \in Range(RowsOfGroup(key)) : IsNaN(to_numeric(r["VL_MERC_POS_FINAL"]))

ShareDone == pc = "done" /\ call.fn \in ShareFns

\* C5 as stated: after a share function returns, every group all of whose rows
\* are indicated has share 1.0 and every group none of whose rows is indicated
\* has share 0.0, rows without a numeric position value being left out.
C5_ShareOneOrZero ==
    ShareDone =>
        \A i \in DOMAIN out.rows :
            LET key == KeyOf(out.rows[i], group_keys)
                share == out.rows[i][ShareColumn]
            IN  /\ AllIndicated(key) => share = Num(1)
                /\ NoneIndicated(key) => share = Num(0)

\* C5 amended: the same for every group whose summed position value is not zero
\* (a group summing to zero, e.g. one with no numeric value at all, has no share).
C5_ShareOneOrZeroNonzeroTotal ==
    ShareDone =>
        \A i \in DOMAIN out.rows :
            LET key == KeyOf(out.rows[i], group_keys)
                share == out.rows[i][ShareColumn]
            IN  GroupTotal(key) # Num(0) =>
                    /\ AllIndicated(key) => share = Num(1)
                    /\ NoneIndicated(key) => share = Num(0)

\* C5 witness: a credit share of 1.0 in a group that also has a row whose
\* position value does not parse
C5_Witness ==
    /\ ShareDone
    /\ \E i \in DOMAIN out.rows :
          LET key == KeyOf(out.rows[i], group_keys)
          IN  /\ AllIndicated(key) /\ HasUnparsable(key)
              /\ Len(RowsOfGroup(key)) > 1
              /\ out.rows[i][ShareColumn] = Num(1)

\* C7 as stated: a share function returns a row for every group of its input,
\* and a group whose summed position value is zero has NaN as its share.
C7_ZeroTotalIsNaN ==
    ShareDone =>
        \A key \in Range(GroupKeysOf(caller_df, group_keys)) :
            /\ RowOfKeyIn(out, group_keys, key) # 0
            /\ GroupTotal(key) = Num(0) =>
                  IsNaN(out.rows[RowOfKeyIn(out, group_keys, key)][ShareColumn])

HhiDone == pc = "done" /\ call.fn = "hhi_feature_fn"

\* summed position value of each issuer of the group
IssuerSums(key) ==
    LET iks == IssuersOf(caller_df, group_keys, key)
    IN  [i \in DOMAIN iks |-> IssuerPos(caller_df, group_keys, iks[i])]

\* C6: after _hhi_feature_fn returns, a group in which one issuer holds all of
\* the value (every other issuer summing to zero) has HHI 1.0, and a group
\* whose n issuers hold equal positive sums has HHI 1/n.
C6_HhiSingleAndEqual ==
    HhiDone =>
        \A i \in DOMAIN out.rows :
            LET key == KeyOf(out.rows[i], group_keys)
                pos == IssuerSums(key)
                hhi == out.rows[i]["issuer_hhi"]
            IN  /\ (\E e \in DOMAIN pos :
                       /\ pos[e] # Num(0)
                       /\ \A o \in DOMAIN pos \ {e} : pos[o] = Num(0))
                   => hhi = Num(1)
                /\ (\A e \in DOMAIN pos : pos[e] = pos[1] /\ FLess(Num(0), pos[e]))
                   => hhi = Q(1, Len(pos))

\* C6 witness: three issuers with equal positive sums, and HHI 1/3
C6_Witness ==
    /\ HhiDone
    /\ \E i \in DOMAIN out.rows :
          LET pos == IssuerSums(KeyOf(out.rows[i], group_keys))
          IN  /\ Len(pos) = 3
              /\ \A e \in DOMAIN pos : pos[e] = Num(1)
              /\ out.rows[i]["issuer_hhi"] = Q(1, 3)

----------------------------------------------------------------------------
(* Claims about the Feature Engine (SpecFeature)                           *)

Returned == pc = "done"
Raised == pc = "raised"

FeatureNames == {registry[i].name : i \in DOMAIN registry}

ComputingTypes == {"aggregation", "row_operation", "custom"}

AllMethodsCompute ==
    \A i \in DOMAIN registry : MethodType(registry[i].method) \in ComputingTypes

IsAdjustment(adj) == MethodType(adj) = "adjustment"

AllAdjustmentsValid ==
    \A i \in DOMAIN registry : \A a \in Range(registry[i].adjustment) : IsAdjustment(a)

\* C1 as stated: when every method of the registry exists (and every adjustment
\* is one), the call returns a table whose columns are the group key columns
\* plus exactly one column per feature name, named by that feature name.
C1_OneColumnPerFeatureName ==
    ((Returned \/ Raised) /\ AllMethodsCompute /\ AllAdjustmentsValid) =>
        /\ Returned
        /\ Range(out.cols) = Range(group_keys) \cup FeatureNames
        /\ Len(out.cols) = Len(group_keys) + Len(registry)

UnknownMethod(i) == registry[i].method \notin DOMAIN FEATURE_ENGINE

\* C2: a registry with a feature whose method has no registry entry never
\* returns a table, and when the loop reaches that feature (every earlier one
\* computed) the call raises the error that names the method.
C2_UnknownMethodFails ==
    \A i \in DOMAIN registry :
        UnknownMethod(i) =>
            /\ ~Returned
            /\ out = NoTable
            /\ (pc = "loop" /\ idx = i) =>
                   ComputeFeature(df, group_keys, registry[i]).err
                       = ValueError("method_not_found", registry[i].method)
            /\ (Raised /\ idx = i) =>
                   err = ValueError("method_not_found", registry[i].method)

\* C2 witness: the unknown method is the second feature, the first one was
\* computed, and the call raised
C2_Witness ==
    /\ Raised /\ idx = 2 /\ Len(results) = 1
    /\ UnknownMethod(2)
    /\ err.what = "method_not_found"

\* C3 as stated: a feature whose adjustment list names something that is not a
\* registry entry of kind adjustment makes the call fail, so no call with such
\* a feature returns a table.
C3_NonAdjustmentFails ==
    Returned => AllAdjustmentsValid

\* the column of the returned table that holds feature j's values (its
\* position is fixed, its name may carry a merge suffix)
OutColumnOf(j) == out.cols[Len(group_keys) + j]

\* C4: the returned table has exactly the group keys of the first feature's
\* table, and a group key that a later feature's table lacks has NaN in that
\* feature's column.
C4_LeftJoinOnFirst ==
    Returned =>
        /\ KeySet(out, group_keys) = KeySet(results[1], group_keys)
        /\ Len(out.rows) = Len(results[1].rows)
        /\ \A j \in 2..Len(results) :
              \A i \in DOMAIN out.rows :
                  KeyOf(out.rows[i], group_keys) \notin KeySet(results[j], group_keys)
                      => IsNaN(out.rows[i][OutColumnOf(j)])

\* C4 witness: the second feature's table lacks a group key of the first
C4_Witness ==
    /\ Returned /\ Len(results) = 2
    /\ \E i \in DOMAIN out.rows :
          /\ KeyOf(out.rows[i], group_keys) \notin KeySet(results[2], group_keys)
          /\ IsNaN(out.rows[i][OutColumnOf(2)])
    /\ \E i \in DOMAIN out.rows :
          KeyOf(out.rows[i], group_keys) \in KeySet(results[2], group_keys)

----------------------------------------------------------------------------
(* Claims about the Score Engine (SpecScore)                               *)

\* the score definitions whose column has been written
Scored == {i \in DOMAIN registry : i < idx /\ pc \in {"loop", "done", "raised"}}

FeaturePresent(i) == HasCol(caller_df, registry[i].feature)

\* the rows of the table that belong to the period
RowsOfPeriod(p) == {r \in DOMAIN out.rows : out.rows[r]["competencia"] = Str(p)}

\* the numerator of a score cell: its deviation from the group mean
DevOf(c) == IF c.k = "z" THEN c.dev ELSE c

\* the sum of the deviations a set of rows has in a score column, NaN skipped
RECURSIVE SumDev(_, _)
SumDev(R, name) ==
    IF R = {} THEN Num(0)
    ELSE LET r == CHOOSE r \in R : TRUE
             d == DevOf(out.rows[r][name])
         IN  IF IsNaN(d) THEN SumDev(R \ {r}, name)
             ELSE FAdd(d, SumDev(R \ {r}, name))

\* the group has two rows whose source values are numbers and differ
HasSpread(p, feat) ==
    \E a, b \in RowsOfPeriod(p) :
        /\ ~IsNaN(out.rows[a][feat]) /\ ~IsNaN(out.rows[b][feat])
        /\ out.rows[a][feat] # out.rows[b][feat]

\* C8: for every z-score column and every group with more than one row and
\* nonzero variance of the source feature, the scores of the group are the
\* deviations from the group mean over one common positive denominator, and
\* the deviations sum to zero (so the scores have mean 0).
C8_ZScoreMeanZero ==
    \A i \in Scored :
        (registry[i].type = "zscore" /\ FeaturePresent(i)) =>
            \A p \in Periods :
                HasSpread(p, registry[i].feature) =>
                    LET R == RowsOfPeriod(p)
                        sc(r) == out.rows[r][registry[i].name]
                    IN  /\ SumDev(R, registry[i].name) = Num(0)
                        /\ \A r \in R :
                              ~IsNaN(out.rows[r][registry[i].feature]) => ~IsNaN(sc(r))
                        /\ \A a, b \in R :
                              (sc(a).k = "z" /\ sc(b).k = "z") =>
                                  /\ sc(a).var = sc(b).var
                                  /\ sc(a).eps = sc(b).eps
                                  /\ FLess(Num(0), sc(a).var)

\* C8 witness: a group of three rows whose mean is not a whole number
C8_Witness ==
    /\ Returned
    /\ \E i \in Scored : \E p \in Periods :
          /\ registry[i].type = "zscore" /\ FeaturePresent(i)
          /\ HasSpread(p, registry[i].feature)
          /\ Cardinality(RowsOfPeriod(p)) = 3
          /\ \E r \in RowsOfPeriod(p) :
                LET c == out.rows[r][registry[i].name]
                IN  c.k = "z" /\ c.dev.d = 3

\* -1 times a score cell, written out
Negated(c) ==
    IF IsNaN(c) THEN NaN
    ELSE IF c.k = "z"
         THEN [k |-> "z", dev |-> Q(-c.dev.n, c.dev.d), var |-> c.var, eps |-> c.eps]
    ELSE Q(-c.n, c.d)

\* definition j is definition i with `invert` added
InvertOf(i, j) ==
    /\ registry[i].type = "zscore" /\ registry[j].type = "zscore"
    /\ registry[i].feature = registry[j].feature
    /\ "invert" \notin Range(registry[i].adjustment)
    /\ "invert" \in Range(registry[j].adjustment)
    /\ Range(registry[j].adjustment) = Range(registry[i].adjustment) \cup {"invert"}

\* C9: the score computed with `invert` is -1 times the score computed without
\* it in every row, and within a group a row with a higher source value has
\* the lower inverted score.
C9_InvertNegates ==
    \A i, j \in Scored :
        InvertOf(i, j) =>
            /\ \A r \in DOMAIN out.rows :
                  out.rows[r][registry[j].name] = Negated(out.rows[r][registry[i].name])
            /\ FeaturePresent(j) =>
                  \A p \in Periods : \A a, b \in RowsOfPeriod(p) :
                      FLess(out.rows[b][registry[j].feature],
                            out.rows[a][registry[j].feature])
                      => FLess(DevOf(out.rows[a][registry[j].name]),
                               DevOf(out.rows[b][registry[j].name]))

\* C9 witness: an inverted and a plain score of the same feature, not zero
C9_Witness ==
    /\ Returned
    /\ \E i, j \in Scored :
          /\ InvertOf(i, j)
          /\ \E r \in DOMAIN out.rows :
                /\ out.rows[r][registry[i].name].k = "z"
                /\ out.rows[r][registry[j].name].k = "z"

\* C10: a z-score definition whose source feature is not a column of the table
\* gets a score column that is NaN in every row, coalesce or not; the call
\* does not raise there, and a call that returns has every score column.
C10_AbsentFeatureAllNaN ==
    \A i \in DOMAIN registry :
        (registry[i].type = "zscore" /\ ~FeaturePresent(i)) =>
            /\ i \in Scored =>
                  /\ HasCol(out, registry[i].name)
                  /\ \A r \in DOMAIN out.rows : IsNaN(out.rows[r][registry[i].name])
            /\ ~(Raised /\ idx = i)
            /\ (pc = "loop" /\ idx = i) => ScoreError(registry[i]) = NoError
            /\ Returned => \A j \in DOMAIN registry : HasCol(out, registry[j].name)

\* C10 witness: the first definition lacks its feature and lists coalesce, the
\* second one was computed after it
C10_Witness ==
    /\ Returned /\ Len(registry) = 2
    /\ ~FeaturePresent(1) /\ "coalesce" \in Range(registry[1].adjustment)
    /\ \A r \in DOMAIN out.rows : IsNaN(out.rows[r][registry[1].name])
    /\ \E r \in DOMAIN out.rows : out.rows[r][registry[2].name].k = "z"

\* the first score definition whose type is not zscore, 0 if there is none
FirstUnsupported ==
    IF \E i \in DOMAIN registry : registry[i].type # "zscore"
    THEN CHOOSE i \in DOMAIN registry :
            /\ registry[i].type # "zscore"
            /\ \A j \in 1..(i - 1) : registry[j].type = "zscore"
    ELSE 0

(* C11: if any score definition has a type other than zscore (a missing    *)
(* type included), compute_scores_from_df never returns a table, and the   *)
(* exception it raises is the ValueError naming the type of the first such  *)
(* definition, however many definitions before it were computed.           *)
C11_UnsupportedTypeFails ==
    /\ call.fn = "compute_scores_from_df"
    /\ FirstUnsupported # 0
    => /\ ~Returned
       /\ pc = "loop" => idx <= FirstUnsupported
       /\ pc = "raised" =>
            /\ idx = FirstUnsupported
            /\ err = ValueError("unsupported_score_type", registry[idx].type)

\* a definition without type, after a zscore definition that was computed,
\* made the call raise
C11_Witness ==
    /\ call.fn = "compute_scores_from_df"
    /\ pc = "raised"
    /\ idx = 2
    /\ registry[2].type = None
    /\ HasCol(out, registry[1].name)
    /\ err = ValueError("unsupported_score_type", None)

----------------------------------------------------------------------------
(* The Policy Engine: compute_profile_scores_from_df                       *)

MaxProfiles == 2
MaxPolicyRows == 3

\* a cell of an integer column
IntCell(n) == [k |-> "int", n |-> n]

\* the float an integer or float cell takes part in float arithmetic as
ToFloat(c) == IF c.k = "int" THEN Num(c.n) ELSE c

\* the metrics of a weight mapping that are columns of the table, in the
\* order of the mapping
PresentWeights(t, weights) == SelectSeq(weights, LAMBDA w : HasCol(t, w.metric))

\* WeightedCell that forgets the weights
RECURSIVE WeightedCell_Unweighted(_, _)
WeightedCell_Unweighted(row, present) ==
    IF present = <<>> THEN IntCell(0)
    ELSE FAdd(ToFloat(WeightedCell_Unweighted(row, SubSeq(present, 1, Len(present) - 1))),
              ToFloat(row[present[Len(present)].metric]))

\* sum(result[metric] * weight for ...) in one row: the sum starts from the
\* integer 0 and adds the products from left to right
RECURSIVE WeightedCell(_, _)
WeightedCell(row, present) ==
    IF present = <<>> THEN IntCell(0)
    ELSE FAdd(ToFloat(WeightedCell(row, SubSeq(present, 1, Len(present) - 1))),
              FMul(ToFloat(row[present[Len(present)].metric]),
                   present[Len(present)].weight))

\* WeightedScore that adds the values without their weights
WeightedScore_Unweighted(t, weights) ==
    [i \in DOMAIN t.rows |-> WeightedCell_Unweighted(t.rows[i], PresentWeights(t, weights))]

\* WeightedScore that is NaN when no weighted column is in the table
WeightedScore_MinCount(t, weights) ==
    [i \in DOMAIN t.rows |->
        IF PresentWeights(t, weights) = <<>> THEN NaN
        ELSE WeightedCell(t.rows[i], PresentWeights(t, weights))]

\* the weighted score column of one profile
WeightedScore(t, weights) ==
    [i \in DOMAIN t.rows |-> WeightedCell(t.rows[i], PresentWeights(t, weights))]

\* the exception the weighted sum raises, if any: a column of strings
\* cannot be multiplied by a float
PolicyError(t, weights) ==
    LET bad == SelectSeq(PresentWeights(t, weights),
                         LAMBDA w : \E i \in DOMAIN t.rows : t.rows[i][w.metric].k = "str")
    IN  IF bad = <<>> THEN NoError ELSE TypeError(bad[1].metric)

\* the exception one iteration of the profile loop raises, if any: a
\* weights value that is a number has no items(); the entry then holds the
\* number under scalar
ProfileError(t, profile) ==
    IF "scalar" \in DOMAIN profile THEN AttributeError(profile.name)
    ELSE PolicyError(t, profile.weights)

\* the distinct values of a set of floats, in ascending order
RECURSIVE SortAscending(_)
SortAscending(S) ==
    IF S = {} THEN <<>>
    ELSE LET m == CHOOSE m \in S : \A o \in S : ~FLess(o, m)
         IN  <<m>> \o SortAscending(S \ {m})

\* the distinct values of a set of floats, from the largest to the smallest
RECURSIVE SortDescending(_)
SortDescending(S) ==
    IF S = {} THEN <<>>
    ELSE LET m == CHOOSE m \in S : \A o \in S : ~FLess(m, o)
         IN  <<m>> \o SortDescending(S \ {m})

\* dense_rank that ranks from the smallest value up
dense_rank_Ascending(series) ==
    LET vals == SortAscending({ToFloat(series[i]) : i \in DOMAIN series} \ {NaN})
    IN  [i \in DOMAIN series |->
            IF IsNaN(series[i]) THEN NaN
            ELSE Num(CHOOSE r \in DOMAIN vals : vals[r] = ToFloat(series[i]))]

\* Series.rank(method="dense", ascending=False): the position of the value
\* among the distinct values in descending order, as a float; NaN stays NaN
dense_rank(series) ==
    LET vals == SortDescending({ToFloat(series[i]) : i \in DOMAIN series} \ {NaN})
    IN  [i \in DOMAIN series |->
            IF IsNaN(series[i]) THEN NaN
            ELSE Num(CHOOSE r \in DOMAIN vals : vals[r] = ToFloat(series[i]))]

\* astype_int that leaves the float as it is
astype_int_Float(a) == a

\* .astype(int) on one cell of a float column without NaN
astype_int(a) == IntCell(a.n \div a.d)

\* the rank column of one profile
RankColumn(series) ==
    LET ranked == dense_rank(series)
    IN  [i \in DOMAIN ranked |-> astype_int(coalesce(ranked[i]))]

score_col(profile_name) == "score_" \o profile_name
rank_col(profile_name) == "rank_" \o profile_name

\* one iteration of the loop over the profiles
ProfileStep(t, profile) ==
    LET scored == SetCol(t, score_col(profile.name), WeightedScore(t, profile.weights))
    IN  SetCol(scored, rank_col(profile.name),
               RankColumn(Column(scored, score_col(profile.name))))

W(metric, n, d) == [metric |-> metric, weight |-> Q(n, d)]

ProfileNames == <<"conservative", "balanced", "aggressive">>

\* weight mappings: "liquidity_score" is a column the table lacks,
\* "score_conservative" and "rank_conservative" exist once the first
\* profile is computed, "competencia" is a column of strings
WeightMaps ==
    {<<W("size_score", 1, 4), W("diversification_score", 3, 4)>>,
     <<W("size_score", 1, 2), W("diversification_score", 1, 2)>>,
     <<W("size_score", 3, 2), W("liquidity_score", 1, 2)>>,
     <<>>,
     <<W("liquidity_score", 1, 2)>>,
     <<W("score_conservative", 1, 2), W("rank_conservative", 1, 4)>>,
     <<W("competencia", 1, 2)>>}

Profiles(n) ==
    UNION {{[i \in 1..m |-> [name |-> ProfileNames[i], weights |-> c[i]]] :
               c \in [1..m -> WeightMaps]} : m \in 1..n}

ScoredCols == <<"CNPJ_FUNDO_CLASSE", "competencia", "size_score", "diversification_score">>

\* what a row of the scored table can hold: period, size score,
\* diversification score
ScoredCells ==
    <<<<"202501", Num(1), Q(1, 2)>>, <<"202501", Num(2), Q(1, 5)>>,
      <<"202501", Num(2), Q(1, 2)>>, <<"202502", Num(1), Q(1, 2)>>,
      <<"202502", Num(1), Q(1, 5)>>, <<"202502", NaN, Q(1, 2)>>>>

\* scored tables of 1..n rows, one fund per row
ScoredTables(n) ==
    {[cols |-> ScoredCols,
      rows |-> [i \in DOMAIN s |->
                  [c \in Range(ScoredCols) |->
                      IF c = "CNPJ_FUNDO_CLASSE" THEN Str(FundIds[i])
                      ELSE IF c = "competencia" THEN Str(ScoredCells[s[i]][1])
                      ELSE IF c = "size_score" THEN ScoredCells[s[i]][2]
                      ELSE ScoredCells[s[i]][3]]]] :
        s \in {q \in UNION {[1..m -> DOMAIN ScoredCells] : m \in 1..n} :
                  \A i \in 1..(Len(q) - 1) : q[i] <= q[i + 1]}}

InitPolicy ==
    /\ pc = "start"
    /\ caller_df \in ScoredTables(MaxPolicyRows)
    /\ df = NoTable
    /\ call = [fn |-> "compute_profile_scores_from_df", args |-> <<>>]
    /\ registry \in Profiles(MaxProfiles)
    /\ idx = 0
    /\ results = <<>>
    /\ out = NoTable
    /\ err = NoError

\* result = df.copy()
PolicyStart ==
    /\ pc = "start"
    /\ out' = Copy(caller_df)
    /\ idx' = 1
    /\ pc' = "loop"
    /\ UNCHANGED <<caller_df, df, registry, call, results, err>>

\* one iteration of the loop: the score column, then the rank column
PolicyStep ==
    /\ pc = "loop"
    /\ idx <= Len(registry)
    /\ ProfileError(out, registry[idx]) = NoError
    /\ out' = ProfileStep(out, registry[idx])
    /\ idx' = idx + 1
    /\ UNCHANGED <<pc, caller_df, df, registry, call, results, err>>

\* the weighted sum raises
PolicyRaise ==
    /\ pc = "loop"
    /\ idx <= Len(registry)
    /\ ProfileError(out, registry[idx]) # NoError
    /\ err' = ProfileError(out, registry[idx])
    /\ pc' = "raised"
    /\ UNCHANGED <<caller_df, df, registry, call, idx, results, out>>

\* return result
PolicyReturn ==
    /\ pc = "loop"
    /\ idx > Len(registry)
    /\ pc' = "done"
    /\ UNCHANGED <<caller_df, df, registry, call, idx, results, out, err>>

NextPolicy == PolicyStart \/ PolicyStep \/ PolicyRaise \/ PolicyReturn

SpecPolicy == InitPolicy /\ [][NextPolicy]_vars

\* compute_profile_scores_from_df as a function of its arguments: the loop
\* from profile i on, res being the table so far
RECURSIVE ProfileLoop(_, _, _)
ProfileLoop(res, profiles, i) ==
    IF i > Len(profiles) THEN [out |-> res, err |-> NoError]
    ELSE IF ProfileError(res, profiles[i]) # NoError
         THEN [out |-> NoTable, err |-> ProfileError(res, profiles[i])]
         ELSE ProfileLoop(ProfileStep(res, profiles[i]), profiles, i + 1)

compute_profile_scores_from_df(t, profiles) == ProfileLoop(Copy(t), profiles, 1)

----------------------------------------------------------------------------
(* Claims about the Policy Engine (SpecPolicy)                             *)

\* the profiles whose columns the loop has added
Profiled == {j \in DOMAIN registry : j < idx /\ pc \in {"loop", "done", "raised"}}

\* the columns of the table when the loop reaches profile j
ColumnsAt(j) ==
    Range(caller_df.cols)
    \cup UNION {{score_col(registry[h].name), rank_col(registry[h].name)} : h \in 1..(j - 1)}

\* the weights of profile j whose column exists when the loop reaches it
WeightsAt(j) ==
    {w \in Range(registry[j].weights) : w.metric \in ColumnsAt(j)}

\* the sum of value * weight of one row over a set of weights
RECURSIVE SumProducts(_, _)
SumProducts(row, ws) ==
    IF ws = {} THEN Num(0)
    ELSE LET w == CHOOSE w \in ws : TRUE
         IN  FAdd(FMul(ToFloat(row[w.metric]), w.weight), SumProducts(row, ws \ {w}))

ScoreOf(j, i) == out.rows[i][score_col(registry[j].name)]
RankOf(j, i) == out.rows[i][rank_col(registry[j].name)]

(* C12: the weighted score of a row is the sum of value * weight over the   *)
(* weights whose column exists in the table; a weight whose column is      *)
(* absent is skipped and raises nothing.  Weights 1/4 and 3/4 give 5/8 on  *)
(* (1, 1/2) and 13/20 on (2, 1/5).                                         *)
C12_WeightedScoreIsSum ==
    call.fn = "compute_profile_scores_from_df" =>
        /\ \A j \in Profiled : \A i \in DOMAIN out.rows :
              /\ ToFloat(ScoreOf(j, i)) = SumProducts(out.rows[i], WeightsAt(j))
              /\ registry[j].weights = <<W("size_score", 1, 4), W("diversification_score", 3, 4)>> =>
                    /\ (out.rows[i]["size_score"] = Num(1)
                         /\ out.rows[i]["diversification_score"] = Q(1, 2))
                        => ScoreOf(j, i) = Q(5, 8)
                    /\ (out.rows[i]["size_score"] = Num(2)
                         /\ out.rows[i]["diversification_score"] = Q(1, 5))
                        => ScoreOf(j, i) = Q(13, 20)
        /\ pc = "raised" =>
              \E w \in WeightsAt(idx) : \E i \in DOMAIN out.rows :
                  out.rows[i][w.metric].k = "str"

\* the call returned; the first profile weights a column the table lacks
\* next to one it has, the second is the profile of the example
C12_Witness ==
    /\ call.fn = "compute_profile_scores_from_df"
    /\ pc = "done"
    /\ Len(registry) = 2
    /\ registry[1].weights = <<W("size_score", 3, 2), W("liquidity_score", 1, 2)>>
    /\ registry[2].weights = <<W("size_score", 1, 4), W("diversification_score", 3, 4)>>
    /\ \E a, b \in DOMAIN out.rows :
          /\ out.rows[a]["size_score"] = Num(1) /\ ScoreOf(1, a) = Q(3, 2)
          /\ ScoreOf(2, a) = Q(5, 8)
          /\ ScoreOf(2, b) = Q(13, 20)

\* the distinct weighted scores of profile j that are not NaN
ScoresOf(j) == {ToFloat(ScoreOf(j, i)) : i \in DOMAIN out.rows} \ {NaN}

(* C13: the rank is a dense descending rank over all rows of the table,    *)
(* whatever their period: a row whose weighted score is not NaN has rank   *)
(* 1 + the number of distinct non-NaN scores strictly greater than its     *)
(* own, and the ranks in use are exactly 1..k.                             *)
C13_DenseDescendingRank ==
    call.fn = "compute_profile_scores_from_df" =>
        \A j \in Profiled :
            /\ \A i \in DOMAIN out.rows :
                  ~IsNaN(ScoreOf(j, i)) =>
                      RankOf(j, i).n =
                          1 + Cardinality({v \in ScoresOf(j) : FLess(ToFloat(ScoreOf(j, i)), v)})
            /\ {RankOf(j, i).n : i \in {i \in DOMAIN out.rows : ~IsNaN(ScoreOf(j, i))}}
                  = 1..Cardinality(ScoresOf(j))

\* two rows of different periods tie at rank 1 and a third, lower one has
\* rank 2
C13_Witness ==
    /\ call.fn = "compute_profile_scores_from_df"
    /\ pc = "done"
    /\ \E a, b, c \in DOMAIN out.rows :
          /\ a # b
          /\ out.rows[a]["competencia"] # out.rows[b]["competencia"]
          /\ ScoreOf(1, a) = ScoreOf(1, b)
          /\ FLess(ToFloat(ScoreOf(1, c)), ToFloat(ScoreOf(1, a)))
          /\ RankOf(1, a).n = 1 /\ RankOf(1, b).n = 1 /\ RankOf(1, c).n = 2

(* C14: every rank is an integer; a row has rank 0 exactly when its        *)
(* weighted score is NaN, and every other row has a rank of at least 1.    *)
C14_RankZeroIffNaN ==
    call.fn = "compute_profile_scores_from_df" =>
        \A j \in Profiled : \A i \in DOMAIN out.rows :
            /\ RankOf(j, i).k = "int"
            /\ RankOf(j, i).n = 0 <=> IsNaN(ScoreOf(j, i))
            /\ ~IsNaN(ScoreOf(j, i)) => RankOf(j, i).n >= 1

\* a row without weighted score has rank 0 next to a ranked row
C14_Witness ==
    /\ call.fn = "compute_profile_scores_from_df"
    /\ pc = "done"
    /\ \E a, b \in DOMAIN out.rows :
          /\ IsNaN(ScoreOf(1, a)) /\ RankOf(1, a) = IntCell(0)
          /\ ~IsNaN(ScoreOf(1, b)) /\ RankOf(1, b) = IntCell(1)

----------------------------------------------------------------------------
(* Dataset Assembly: compute_all_features                                  *)

MaxDatasets == 2

\* compute_features(df): the loop over the registry and the merge, as one call
RECURSIVE compute_features(_, _, _, _, _)
compute_features(t, keys, reg, i, res) ==
    IF i > Len(reg)
    THEN (IF res = <<>> THEN [err |-> IndexError, out |-> NoTable]
          ELSE [err |-> NoError, out |-> MergeAll(Head(res), Tail(res), keys)])
    ELSE LET c == ComputeFeature(t, keys, reg[i])
         IN  IF c.err # NoError THEN [err |-> c.err, out |-> NoTable]
             ELSE compute_features(c.df, keys, reg, i + 1, Append(res, c.agg))

\* df = df.copy(); return compute_features(df)
compute_features_from_df(t, keys, reg) == compute_features(Copy(t), keys, reg, 1, <<>>)

\* MergeOuter that keeps the keys of the left table only
MergeOuter_Left(left, right, keys) == MergeLeft(left, right, keys)

\* final_df.merge(r, on=group_keys, how="outer"): one row for each key of
\* either side, sorted by key; the columns a side lacks the key for are NaN
MergeOuter(left, right, keys) ==
    LET both == (Range(left.cols) \cap Range(right.cols)) \ Range(keys)
        lname(c) == IF c \in both THEN c \o "_x" ELSE c
        rname(c) == IF c \in both THEN c \o "_y" ELSE c
        rcols == SelectSeq(right.cols, LAMBDA c : c \notin Range(keys))
        cols == MapSeq(left.cols, lname) \o MapSeq(rcols, rname)
        gkeys == SortKeys(KeySet(left, keys) \cup KeySet(right, keys))
    IN  [cols |-> cols,
         rows |-> [i \in DOMAIN gkeys |->
                     LET l == RowOfKeyIn(left, keys, gkeys[i])
                         r == RowOfKeyIn(right, keys, gkeys[i])
                     IN  [x \in Range(cols) |->
                            IF x \in Range(keys)
                            THEN gkeys[i][CHOOSE j \in DOMAIN keys : keys[j] = x]
                            ELSE IF \E c \in Range(left.cols) : lname(c) = x
                            THEN (IF l = 0 THEN NaN
                                  ELSE left.rows[l][CHOOSE c \in Range(left.cols) : lname(c) = x])
                            ELSE IF r = 0 THEN NaN
                            ELSE right.rows[r][CHOOSE c \in Range(rcols) : rname(c) = x]]]]

\* final_df = results[0]; for r in results[1:]: final_df = final_df.merge(...)
RECURSIVE MergeOuterAll(_, _, _)
MergeOuterAll(final, rest, keys) ==
    IF rest = <<>> THEN final
    ELSE MergeOuterAll(MergeOuter(final, Head(rest), keys), Tail(rest), keys)

\* IsEmptyCfg that takes no feature definition set for empty
IsEmptyCfg_Never(features) == FALSE

\* not dataset_feature_cfg
IsEmptyCfg(features) == features = <<>>

DatasetNames == <<"myds", "other", "extra">>

AssetOf(code) == CHOOSE a \in Assets : a.CD_ATIVO = Str(code)

\* the raw tables of the datasets: one fund, the other fund, both funds, and
\* both funds where the second holds nothing but an asset without issuer
DatasetTables ==
    {[cols |-> RawCols, rows |-> r] :
        r \in {<<RawRow("F1", AssetOf("A2"), Num(2))>>,
               <<RawRow("F2", AssetOf("A2"), Str("x"))>>,
               <<RawRow("F1", AssetOf("A2"), Num(2)), RawRow("F2", AssetOf("A2"), Num(2))>>,
               <<RawRow("F1", AssetOf("A2"), Num(2)), RawRow("F2", AssetOf("A4"), Num(2))>>}}

\* the feature definition sets of a dataset: none, an aggregation, the
\* issuer concentration, a row operation, and a method the engine lacks
DatasetFeatureSets ==
    {<<>>,
     <<Feat("max_pos", "max", <<"VL_MERC_POS_FINAL">>, <<>>)>>,
     <<Feat("issuer_hhi", "hhi_feature_fn", <<>>, <<>>)>>,
     <<Feat("n_credito", "isin", <<"TP_APLIC", <<"Deb", "CRI">>>>, <<>>)>>,
     <<Feat("median_pos", "median", <<"VL_MERC_POS_FINAL">>, <<>>)>>}

\* feature_registry: dataset name -> feature definition set, in mapping order
DatasetRegistries(n) ==
    UNION {{[i \in 1..m |-> [dataset |-> DatasetNames[i], features |-> c[i]]] :
               c \in [1..m -> DatasetFeatureSets]} : m \in 1..n}

\* the datasets mappings for the first m dataset names: any of the names may
\* be missing from the mapping
DatasetMaps(m) ==
    UNION {[S -> DatasetTables] : S \in SUBSET {DatasetNames[i] : i \in 1..m}}

\* the sections of the configuration, in the order the function reads them
FeatureSections == <<"feature", "group_keys", "feature_registry">>

\* configurations: complete, or lacking one of the sections
FeatureConfigs ==
    {Range(FeatureSections), {}, {"feature", "feature_registry"}, {"feature", "group_keys"}}

\* the first section the configuration lacks, "" if it is complete
MissingSection(sections) ==
    IF \A i \in DOMAIN FeatureSections : FeatureSections[i] \in sections THEN ""
    ELSE FeatureSections[CHOOSE i \in DOMAIN FeatureSections :
                            /\ FeatureSections[i] \notin sections
                            /\ \A j \in 1..(i - 1) : FeatureSections[j] \in sections]

\* what the loop body does for the dataset at position i: the exception it
\* raises or the feature table it appends
DatasetRun(i) ==
    IF registry[i].dataset \notin DOMAIN call.datasets
    THEN [err |-> KeyError(registry[i].dataset), out |-> NoTable]
    ELSE compute_features_from_df(call.datasets[registry[i].dataset], group_keys,
                                  registry[i].features)

InitAssembly ==
    /\ pc = "start"
    /\ registry \in DatasetRegistries(MaxDatasets)
    /\ \E d \in DatasetMaps(Len(registry)), c \in FeatureConfigs :
          call = [fn |-> "compute_all_features", args |-> <<>>,
                  datasets |-> d, sections |-> c]
    /\ caller_df = NoTable
    /\ df = NoTable
    /\ idx = 0
    /\ results = <<>>
    /\ out = NoTable
    /\ err = NoError

\* feature_section = yaml_cfg["feature"] ... results = []
AssemblyStart ==
    /\ pc = "start"
    /\ MissingSection(call.sections) = ""
    /\ idx' = 1
    /\ pc' = "loop"
    /\ UNCHANGED <<caller_df, df, registry, call, results, out, err>>

\* a subscript of the configuration raises KeyError
AssemblyKeyError ==
    /\ pc = "start"
    /\ MissingSection(call.sections) # ""
    /\ err' = KeyError(MissingSection(call.sections))
    /\ pc' = "raised"
    /\ UNCHANGED <<caller_df, df, registry, call, idx, results, out>>

\* a dataset without feature definitions: continue
AssemblySkip ==
    /\ pc = "loop"
    /\ idx <= Len(registry)
    /\ IsEmptyCfg(registry[idx].features)
    /\ idx' = idx + 1
    /\ UNCHANGED <<pc, caller_df, df, registry, call, results, out, err>>

\* a dataset with feature definitions: results.append(df_res)
AssemblyStep ==
    /\ pc = "loop"
    /\ idx <= Len(registry)
    /\ ~IsEmptyCfg(registry[idx].features)
    /\ DatasetRun(idx).err = NoError
    /\ df' = call.datasets[registry[idx].dataset]
    /\ results' = Append(results, DatasetRun(idx).out)
    /\ idx' = idx + 1
    /\ UNCHANGED <<pc, caller_df, registry, call, out, err>>

\* the dataset is missing or its Feature Engine call raises
AssemblyRaise ==
    /\ pc = "loop"
    /\ idx <= Len(registry)
    /\ ~IsEmptyCfg(registry[idx].features)
    /\ DatasetRun(idx).err # NoError
    /\ err' = DatasetRun(idx).err
    /\ pc' = "raised"
    /\ UNCHANGED <<caller_df, df, registry, call, idx, results, out>>

\* if not results: raise ValueError("No features computed. ...")
AssemblyNoFeatures ==
    /\ pc = "loop"
    /\ idx > Len(registry)
    /\ results = <<>>
    /\ err' = ValueError("no_features_computed", "")
    /\ pc' = "raised"
    /\ UNCHANGED <<caller_df, df, registry, call, idx, results, out>>

\* the outer merge of the per-dataset tables and the return
AssemblyMerge ==
    /\ pc = "loop"
    /\ idx > Len(registry)
    /\ results # <<>>
    /\ out' = MergeOuterAll(Head(results), Tail(results), group_keys)
    /\ pc' = "done"
    /\ UNCHANGED <<caller_df, df, registry, call, idx, results, err>>

NextAssembly ==
    \/ AssemblyStart \/ AssemblyKeyError \/ AssemblySkip \/ AssemblyStep
    \/ AssemblyRaise \/ AssemblyNoFeatures \/ AssemblyMerge

SpecAssembly == InitAssembly /\ [][NextAssembly]_vars

----------------------------------------------------------------------------
(* Claims about Dataset Assembly (SpecAssembly)                            *)

\* the datasets the loop has dealt with
Visited == {i \in DOMAIN registry : i < idx}

\* the datasets with a feature definition
WithFeatures == {i \in DOMAIN registry : registry[i].features # <<>>}

\* the call is over, with a table or with an exception
Ended == pc \in {"done", "raised"}

NoFeaturesError == ValueError("no_features_computed", "")

\* the configuration has its sections and the datasets mapping has every
\* dataset of the registry
WellFormedCall ==
    /\ MissingSection(call.sections) = ""
    /\ \A i \in DOMAIN registry : registry[i].dataset \in DOMAIN call.datasets

RawKeys(t) == {k \in KeySet(t, group_keys) : KeyValid(k)}

\* the feature columns of the table the Feature Engine returns for the
\* dataset at position i
FeatureColumnsOf(i) ==
    Range(DatasetRun(i).out.cols) \ Range(group_keys)

\* the feature columns of dataset i that no other dataset has under the
\* same name, which the merge therefore leaves unrenamed
OwnColumnsOf(i) ==
    {c \in FeatureColumnsOf(i) :
        \A h \in WithFeatures \ {i} : c \notin FeatureColumnsOf(h)}

(* C16: the table compute_all_features returns has a row for every group   *)
(* key present in any of the processed datasets, and in the row of a key   *)
(* that a dataset lacks the feature columns of that dataset are NaN.       *)
C16_EveryDatasetKeyKept ==
    (call.fn = "compute_all_features" /\ pc = "done") =>
        \A i \in WithFeatures :
            /\ RawKeys(call.datasets[registry[i].dataset]) \subseteq KeySet(out, group_keys)
            /\ \A r \in DOMAIN out.rows :
                  KeyOf(out.rows[r], group_keys) \notin RawKeys(call.datasets[registry[i].dataset])
                  => \A c \in OwnColumnsOf(i) : IsNaN(out.rows[r][c])

----------------------------------------------------------------------------
(* Claims about the tables a call is given                                 *)

(* C17: no stage changes the table its caller passed in: over any step of  *)
(* a call the caller's table keeps its columns, its values and the types   *)
(* of its values.                                                          *)
C17_CallerTableUnchanged == [][caller_df' = caller_df]_vars

----------------------------------------------------------------------------
(* The entry points that take the parsed YAML configuration:               *)
(* compute_scores_from_yaml and compute_profile_scores_from_yaml           *)

MaxYamlRows == 2

(* A YAML mapping is the sequence of its entries in document order, each   *)
(* entry a record with the key under name.                                 *)
NameOf(e) == IF "metric" \in DOMAIN e THEN e.metric ELSE e.name

Keys(m) == {NameOf(m[i]) : i \in DOMAIN m}

\* the value an entry holds under its key
ValueOf(e) ==
    IF "value" \in DOMAIN e THEN e.value
    ELSE IF "weights" \in DOMAIN e THEN e.weights ELSE e.weight

\* m.get(key) or {}: the value under the key, the empty mapping if the key
\* is missing
GetOrEmpty(m, key) ==
    IF key \in Keys(m) THEN ValueOf(m[CHOOSE i \in DOMAIN m : NameOf(m[i]) = key]) ELSE <<>>

Section(name, value) == [name |-> name, value |-> value]

\* score_registry = yaml_cfg.get("score") or {}
score_registry_of(cfg) == GetOrEmpty(cfg, "score")

\* the mapping compute_profile_scores_from_yaml hands to the Policy Engine
profile_registry_of(cfg) ==
    LET m == IF "profile" \in Keys(cfg) \/ "profiles" \in Keys(cfg)
             THEN (IF GetOrEmpty(cfg, "profile") # <<>>
                   THEN GetOrEmpty(cfg, "profile") ELSE GetOrEmpty(cfg, "profiles"))
             ELSE cfg
    IN  [i \in DOMAIN m |->
            IF "metric" \in DOMAIN m[i]
            THEN [name |-> m[i].metric, weights |-> <<>>, scalar |-> m[i].weight]
            ELSE [name |-> m[i].name, weights |-> ValueOf(m[i])]]

\* the feature section of a configuration, as the mapping it is
FeatureSection ==
    <<[metric |-> "group_keys", weight |-> group_keys],
      [metric |-> "feature_registry", weight |-> <<>>]>>

\* configurations handed to compute_scores_from_yaml: with a score section,
\* empty, and with other sections only
ScoreConfigs ==
    {<<Section("score", r)>> : r \in ScoreRegistries(1)}
    \cup {<<Section("feature", FeatureSection), Section("score", r)>> : r \in ScoreRegistries(1)}
    \cup {<<>>, <<Section("feature", FeatureSection)>>}

\* profiles mappings handed over through a configuration: those of the
\* Policy Engine, and mappings whose one profile is called "profile" or
\* "profiles"
YamlProfiles ==
    Profiles(1)
    \cup {<<[name |-> n, weights |-> w]>> :
             n \in {"profile", "profiles"},
             w \in {<<W("size_score", 1, 4), W("diversification_score", 3, 4)>>, <<>>}}

\* configurations handed to compute_profile_scores_from_yaml, with the
\* profiles mapping they were made from: the profiles under either key, the
\* profiles mapping itself, and configurations without profiles
ProfileConfigs ==
    {[cfg |-> <<Section("profile", r)>>, profiles |-> r] : r \in YamlProfiles}
    \cup {[cfg |-> <<Section("profiles", r)>>, profiles |-> r] : r \in YamlProfiles}
    \cup {[cfg |-> r, profiles |-> r] : r \in YamlProfiles}
    \cup {[cfg |-> <<>>], [cfg |-> <<Section("feature", FeatureSection)>>]}

InitYaml ==
    /\ pc = "yaml"
    /\ \/ /\ caller_df \in FeatureTables(MaxYamlRows)
          /\ \E c \in ScoreConfigs :
                call = [fn |-> "compute_scores_from_yaml", args |-> <<"competencia">>, cfg |-> c]
       \/ /\ caller_df \in ScoredTables(MaxYamlRows)
          /\ \E c \in ProfileConfigs :
                call = [fn |-> "compute_profile_scores_from_yaml", args |-> <<>>] @@ c
    /\ df = NoTable
    /\ registry = <<>>
    /\ idx = 0
    /\ results = <<>>
    /\ out = NoTable
    /\ err = NoError

\* compute_scores_from_yaml up to its call of compute_scores_from_df
ScoresFromYaml ==
    /\ pc = "yaml"
    /\ call.fn = "compute_scores_from_yaml"
    /\ registry' = score_registry_of(call.cfg)
    /\ pc' = "start"
    /\ UNCHANGED <<caller_df, df, call, idx, results, out, err>>

\* compute_profile_scores_from_yaml up to its call of
\* compute_profile_scores_from_df
ProfilesFromYaml ==
    /\ pc = "yaml"
    /\ call.fn = "compute_profile_scores_from_yaml"
    /\ registry' = profile_registry_of(call.cfg)
    /\ pc' = "start"
    /\ UNCHANGED <<caller_df, df, call, idx, results, out, err>>

NextYaml ==
    \/ ScoresFromYaml
    \/ ProfilesFromYaml
    \/ (call.fn = "compute_scores_from_yaml" /\ NextScore)
    \/ (call.fn = "compute_profile_scores_from_yaml" /\ NextPolicy)

SpecYaml == InitYaml /\ [][NextYaml]_vars

----------------------------------------------------------------------------
(* Claims about the configuration entry points (SpecYaml)                  *)

\* the configuration lacks the section the called function reads
LacksSection ==
    IF call.fn = "compute_scores_from_yaml" THEN "score" \notin Keys(call.cfg)
    ELSE /\ Keys(call.cfg) \cap {"profile", "profiles"} = {}
         /\ call.cfg \notin Profiles(1)

(* C18: a call whose configuration lacks its required section fails with a *)
(* configuration error; it never returns a table computed from an empty    *)
(* registry.                                                               *)
C18_MissingSectionFails ==
    (call.fn \in {"compute_scores_from_yaml", "compute_profile_scores_from_yaml"}
     /\ LacksSection)
    => pc # "done"

----------------------------------------------------------------------------
(* The fetcher: fetch_manifest                                             *)

MaxManifest == 2

\* what the download and the parse of one period's archive can come to: a
\* table with rows, a table without rows (a CSV with its header only), an
\* exception of download_zip, an exception of load_zip
FetchOutcomes == {"rows", "no_rows", "download_error", "parse_error"}

ManifestPeriods == <<"202501", "202502">>

\* a manifest entry: its periods with what fetching each comes to, and
\* whether it has its base_url and filename_template
ManifestEntry(name, n, outcomes, complete) ==
    [dataset |-> name,
     periods |-> [j \in 1..n |-> [period |-> ManifestPeriods[j], outcome |-> outcomes[j]]],
     complete |-> complete]

\* manifests of 1..n datasets, in document order
Manifests(n) ==
    LET entries(name) ==
            {ManifestEntry(name, k, o, TRUE) :
                k \in 0..Len(ManifestPeriods), o \in [DOMAIN ManifestPeriods -> FetchOutcomes]}
            \cup {ManifestEntry(name, 1, <<"rows">>, FALSE)}
    IN  UNION {{m \in [1..k -> UNION {entries(DatasetNames[i]) : i \in 1..k}] :
                   \A i \in 1..k : m[i].dataset = DatasetNames[i]} : k \in 1..n}

\* the file a partition is written to: parquet, or CSV when the parquet
\* engine is missing
PartitionFile(pyarrow) == IF pyarrow THEN "data.parquet" ELSE "data.csv"

\* the directories and files the partition loop creates for one dataset:
\* one partition for each period that occurs in a row of df_final
PartitionsOf(name, all_dfs, pyarrow) ==
    UNION {{<<name>>, <<name, all_dfs[j].period>>,
            <<name, all_dfs[j].period, PartitionFile(pyarrow)>>} :
              j \in {j \in DOMAIN all_dfs : all_dfs[j].outcome = "rows"}}

InitFetch ==
    /\ pc = "start"
    /\ registry \in Manifests(MaxManifest)
    /\ \E b \in BOOLEAN : call = [fn |-> "fetch_manifest", args |-> <<>>, pyarrow |-> b]
    /\ caller_df = NoTable
    /\ df = NoTable
    /\ idx = <<0, 0>>
    /\ results = <<>>
    /\ out = [fetched |-> <<>>, disk |-> {}]
    /\ err = NoError

\* output_dir.mkdir(...); fetched = {}
FetchStart ==
    /\ pc = "start"
    /\ out' = [out EXCEPT !.disk = {<<>>}]
    /\ idx' = <<1, 1>>
    /\ results' = <<>>
    /\ pc' = "loop"
    /\ UNCHANGED <<caller_df, df, registry, call, err>>

\* one period whose archive downloads and parses: all_dfs.append(df)
FetchPeriod ==
    /\ pc = "loop"
    /\ idx[1] <= Len(registry)
    /\ idx[2] <= Len(registry[idx[1]].periods)
    /\ registry[idx[1]].complete
    /\ registry[idx[1]].periods[idx[2]].outcome \in {"rows", "no_rows"}
    /\ results' = Append(results, registry[idx[1]].periods[idx[2]])
    /\ idx' = <<idx[1], idx[2] + 1>>
    /\ UNCHANGED <<pc, caller_df, df, registry, call, out, err>>

\* one period whose download or parse raises: except Exception, "Skipped"
FetchSkip ==
    /\ pc = "loop"
    /\ idx[1] <= Len(registry)
    /\ idx[2] <= Len(registry[idx[1]].periods)
    /\ registry[idx[1]].complete
    /\ registry[idx[1]].periods[idx[2]].outcome \in {"download_error", "parse_error"}
    /\ idx' = <<idx[1], idx[2] + 1>>
    /\ UNCHANGED <<pc, caller_df, df, registry, call, results, out, err>>

\* cfg["base_url"] of an entry without it, outside the try block
FetchRaise ==
    /\ pc = "loop"
    /\ idx[1] <= Len(registry)
    /\ idx[2] <= Len(registry[idx[1]].periods)
    /\ ~registry[idx[1]].complete
    /\ err' = KeyError("base_url")
    /\ pc' = "raised"
    /\ UNCHANGED <<caller_df, df, registry, call, idx, results, out>>

\* if not all_dfs: "No data retrieved", continue
FetchDrop ==
    /\ pc = "loop"
    /\ idx[1] <= Len(registry)
    /\ idx[2] > Len(registry[idx[1]].periods)
    /\ results = <<>>
    /\ idx' = <<idx[1] + 1, 1>>
    /\ UNCHANGED <<pc, caller_df, df, registry, call, results, out, err>>

\* fetched[ds_name] = df_final and the loop that writes the partitions
FetchSave ==
    /\ pc = "loop"
    /\ idx[1] <= Len(registry)
    /\ idx[2] > Len(registry[idx[1]].periods)
    /\ results # <<>>
    /\ out' = [fetched |-> Append(out.fetched,
                                  [dataset |-> registry[idx[1]].dataset, periods |-> results]),
               disk |-> out.disk \cup PartitionsOf(registry[idx[1]].dataset, results,
                                                   call.pyarrow)]
    /\ results' = <<>>
    /\ idx' = <<idx[1] + 1, 1>>
    /\ UNCHANGED <<pc, caller_df, df, registry, call, err>>

\* return fetched
FetchReturn ==
    /\ pc = "loop"
    /\ idx[1] > Len(registry)
    /\ pc' = "done"
    /\ UNCHANGED <<caller_df, df, registry, call, idx, results, out, err>>

NextFetch ==
    \/ FetchStart \/ FetchPeriod \/ FetchSkip \/ FetchRaise
    \/ FetchDrop \/ FetchSave \/ FetchReturn

SpecFetch == InitFetch /\ [][NextFetch]_vars

----------------------------------------------------------------------------
(* Claims about the fetcher (SpecFetch)                                    *)

\* the periods of manifest entry i whose download and parse succeed
Succeeded(i) ==
    SelectSeq(registry[i].periods, LAMBDA p : p.outcome \in {"rows", "no_rows"})

\* the datasets the loop has dealt with
Fetched == {i \in DOMAIN registry : i < idx[1]}

\* the entry of the returned mapping for a dataset, 0 if it has none
FetchedEntry(name) ==
    IF \E k \in DOMAIN out.fetched : out.fetched[k].dataset = name
    THEN CHOOSE k \in DOMAIN out.fetched : out.fetched[k].dataset = name
    ELSE 0

(* C19: a period whose download or parse fails is skipped and raises       *)
(* nothing, the other periods and datasets are processed in manifest       *)
(* order; a dataset is in the returned mapping, and has a directory on     *)
(* disk, if and only if at least one of its periods succeeded.             *)
C19_FailedPeriodsSkipped ==
    call.fn = "fetch_manifest" =>
        /\ pc = "raised" => ~registry[idx[1]].complete
        /\ pc \in {"loop", "done"} =>
              /\ \A i \in Fetched :
                    /\ FetchedEntry(registry[i].dataset) # 0 <=> Succeeded(i) # <<>>
                    /\ <<registry[i].dataset>> \in out.disk <=> Succeeded(i) # <<>>
                    /\ Succeeded(i) # <<>> =>
                          out.fetched[FetchedEntry(registry[i].dataset)].periods = Succeeded(i)
              /\ \A k, l \in DOMAIN out.fetched :
                    k < l => \E i, j \in Fetched :
                                /\ i < j
                                /\ registry[i].dataset = out.fetched[k].dataset
                                /\ registry[j].dataset = out.fetched[l].dataset
              /\ idx[1] \in DOMAIN registry =>
                    results = SubSeq(Succeeded(idx[1]), 1, Len(results))

----------------------------------------------------------------------------
(* The command line: data fetch, feature build, model score,               *)
(* policy profile-score                                                    *)

Commands == {"fetch", "build", "score", "profile-score"}

\* the configuration file (the manifest, for fetch): a readable YAML
\* document with what the command needs, a readable YAML document without
\* its profiles, or a file that cannot be opened or parsed
ConfigFiles == {"valid", "no_profiles", "invalid"}

\* raise typer.Exit(1)
Exit(code) == [type |-> "Exit", code |-> code]

\* an exception that leaves the command function as it is
Uncaught(what) == [type |-> "Exception", what |-> what]

\* the commands that test input_path.exists() / manifest_path.exists()
ChecksInput == {"fetch", "score", "profile-score"}

\* the commands that read a feature table before the configuration
ReadsTable == {"score", "profile-score"}

\* the commands that load their configuration inside try / except
LoadsInTry == {"build", "score", "profile-score"}

\* the commands that run their computation inside try / except
ComputesInTry == {"build", "score", "profile-score"}

\* the computation of the command raises: the library call does, or, for
\* build, the dataset directory is missing
ComputationRaises ==
    call.compute = "raises" \/ (call.fn = "build" /\ ~call.input_exists)

InitCli ==
    /\ pc = "start"
    /\ \E c \in Commands, e, r, w \in BOOLEAN, f \in ConfigFiles, x \in {"returns", "raises"} :
          call = [fn |-> c, args |-> <<>>, input_exists |-> e, input_readable |-> r,
                  config |-> f, compute |-> x, pyarrow |-> w]
    /\ caller_df = NoTable
    /\ df = NoTable
    /\ registry = <<>>
    /\ idx = 0
    /\ results = <<>>
    /\ out = <<>>
    /\ err = NoError

\* if not input_path.exists(): print, raise typer.Exit(1)
CliInputMissing ==
    /\ pc = "start"
    /\ call.fn \in ChecksInput
    /\ ~call.input_exists
    /\ out' = Append(out, "not found")
    /\ err' = Exit(1)
    /\ pc' = "exit"
    /\ UNCHANGED <<caller_df, df, registry, call, idx, results>>

\* the feature table is read; a failure is printed and exits
CliReadInput ==
    /\ pc = "start"
    /\ call.fn \in ChecksInput => call.input_exists
    /\ IF call.fn \in ReadsTable /\ ~call.input_readable
       THEN /\ out' = Append(out, "Failed to read input file")
            /\ err' = Exit(1)
            /\ pc' = "exit"
       ELSE /\ pc' = "config"
            /\ UNCHANGED <<out, err>>
    /\ UNCHANGED <<caller_df, df, registry, call, idx, results>>

\* the configuration is loaded
CliLoadConfig ==
    /\ pc = "config"
    /\ call.config # "invalid"
    /\ IF call.fn = "profile-score" /\ call.config = "no_profiles"
       THEN /\ out' = Append(out, "YAML missing profile/profiles section")
            /\ err' = Exit(1)
            /\ pc' = "exit"
       ELSE /\ pc' = "compute"
            /\ UNCHANGED <<out, err>>
    /\ UNCHANGED <<caller_df, df, registry, call, idx, results>>

\* open() or yaml.safe_load() raises
CliConfigFails ==
    /\ pc = "config"
    /\ call.config = "invalid"
    /\ IF call.fn \in LoadsInTry
       THEN /\ out' = Append(out, "Failed to load config YAML")
            /\ err' = Exit(1)
            /\ pc' = "exit"
       ELSE /\ err' = Uncaught("yaml")
            /\ pc' = "raised"
            /\ UNCHANGED out
    /\ UNCHANGED <<caller_df, df, registry, call, idx, results>>

\* the computation returns and the output is written
CliCompute ==
    /\ pc = "compute"
    /\ ~ComputationRaises
    /\ out' = IF call.fn = "fetch" THEN out
              ELSE Append(out, IF call.pyarrow THEN "written" ELSE "wrote CSV instead")
    /\ pc' = "done"
    /\ UNCHANGED <<caller_df, df, registry, call, idx, results, err>>

\* the computation raises
CliComputeFails ==
    /\ pc = "compute"
    /\ ComputationRaises
    /\ IF call.fn \in ComputesInTry
       THEN /\ out' = Append(out, "Error computing")
            /\ err' = Exit(1)
            /\ pc' = "exit"
       ELSE /\ err' = Uncaught("computation")
            /\ pc' = "raised"
            /\ UNCHANGED out
    /\ UNCHANGED <<caller_df, df, registry, call, idx, results>>

NextCli ==
    \/ CliInputMissing \/ CliReadInput \/ CliLoadConfig \/ CliConfigFails
    \/ CliCompute \/ CliComputeFails

SpecCli == InitCli /\ [][NextCli]_vars

----------------------------------------------------------------------------
(* Claims about the command line (SpecCli)                                 *)

\* the command function is over
CliEnded == pc \in {"done", "exit", "raised"}

\* the command met one of the three cases: its input is missing, its
\* configuration cannot be loaded, its computation raised
CliFailure ==
    \/ ~call.input_exists
    \/ call.config = "invalid"
    \/ call.compute = "raises"

(* C20: each of the four commands ends with a printed error message and    *)
(* typer.Exit(1) when its input is missing, when its configuration file is *)
(* unreadable or not valid, and when its computation raises.               *)
C20_FailureExitsWithMessage ==
    (call.fn \in Commands /\ CliEnded /\ CliFailure)
    => /\ pc = "exit"
       /\ err = Exit(1)
       /\ out # <<>>

----------------------------------------------------------------------------
(* Claims about the three accepted shapes of a profiles configuration      *)
(* (SpecYaml)                                                              *)

\* a call of compute_profile_scores_from_yaml made from a profiles mapping
\* is over
ProfilesCallEnded ==
    /\ call.fn = "compute_profile_scores_from_yaml"
    /\ "profiles" \in DOMAIN call
    /\ pc \in {"done", "raised"}

(* C21: compute_profile_scores_from_yaml(df, cfg) equals                   *)
(* compute_profile_scores_from_df(df, P) when cfg is {"profile": P},       *)
(* {"profiles": P} or P itself, whatever the profile names of P are: both  *)
(* return the same table or raise the same exception.                      *)
C21_YamlEqualsDf ==
    ProfilesCallEnded =>
        LET direct == compute_profile_scores_from_df(caller_df, call.profiles)
        IN  IF pc = "raised" THEN direct.err = err
            ELSE direct.err = NoError /\ direct.out = out

----------------------------------------------------------------------------
(* Claims about the order of adjustments and the independence of features  *)
(* (SpecFeature)                                                           *)

\* the engine's table df when the loop reaches feature i
RECURSIVE EngineDf(_)
EngineDf(i) ==
    IF i = 1 THEN Copy(caller_df) ELSE FeatureEffect(EngineDf(i - 1), registry[i - 1])

\* the features whose table is in results, with the feature column in it
Adjusted == {i \in DOMAIN results : HasCol(results[i], registry[i].name)}

\* the just-computed column of feature i, before its adjustments
RawColumn(i) ==
    Column(FeatureTable(EngineDf(i), group_keys, registry[i].name, registry[i]),
           registry[i].name)

\* adj_n(...adj_2(adj_1(series))...)
RECURSIVE Composed(_, _)
Composed(adjustments, series) ==
    IF adjustments = <<>> THEN series
    ELSE AdjustColumn(adjustments[Len(adjustments)],
                      Composed(SubSeq(adjustments, 1, Len(adjustments) - 1), series))

Reversed(seq) == [i \in DOMAIN seq |-> seq[Len(seq) + 1 - i]]

(* C22: the adjustments of a feature are applied to its just-computed      *)
(* column in the listed order, each on the output of the previous one: the *)
(* column in the feature's table is adj_n(...adj_2(adj_1(raw))...).        *)
C22_AdjustmentsInListedOrder ==
    \A i \in Adjusted :
        Column(results[i], registry[i].name) = Composed(registry[i].adjustment, RawColumn(i))

\* a feature with two adjustments was computed, and the other order of the
\* two would have given another column
C22_Witness ==
    \E i \in Adjusted :
        /\ Len(registry[i].adjustment) = 2
        /\ Column(results[i], registry[i].name)
              # Composed(Reversed(registry[i].adjustment), RawColumn(i))

(* C23: within one call each feature is a function of the raw input table  *)
(* alone: the table computed for a feature is the one the feature gives on *)
(* the input table, whatever features come before it in the registry.      *)
C23_FeatureOfRawInputOnly ==
    \A i \in DOMAIN results :
        results[i] = ComputeFeature(Copy(caller_df), group_keys, registry[i]).agg

----------------------------------------------------------------------------
(* Claims about undefined numeric results                                  *)

\* the denominator of the issuer weights of one group: the summed position
\* value of its issuers in the coerced table
IssuerTotal(t, key) ==
    LET iks == IssuersOf(hhi_df(t), group_keys, key)
    IN  SumSkipNa([i \in DOMAIN iks |-> IssuerPos(hhi_df(t), group_keys, iks[i])])

(* C24 (SpecCustom): the issuer concentration function gives NaN for a     *)
(* group whose total position value is zero.                               *)
C24_ZeroTotalHhiIsNaN ==
    (call.fn = "hhi_feature_fn" /\ pc = "done") =>
        \A r \in DOMAIN out.rows :
            IssuerTotal(df, KeyOf(out.rows[r], group_keys)) = Num(0)
                => IsNaN(out.rows[r].issuer_hhi)

\* the row is the only one of its period
AloneInPeriod(r) ==
    \A q \in DOMAIN out.rows :
        out.rows[q]["competencia"] = out.rows[r]["competencia"] => q = r

\* weight mappings of a profile that weights the score
WeightsOn(name) ==
    {<<W(name, 1, 2)>>, <<W(name, 0, 1)>>,
     <<W("log_aum", 1, 4), W(name, 3, 4)>>, <<W(name, 1, 2), W("liquidity", 1, 2)>>}

\* what the claim says of score definition i in row r, a row alone in its
\* period
LoneRowScore(i, r) ==
    IF "coalesce" \in Range(registry[i].adjustment)
    THEN out.rows[r][registry[i].name] = Num(0)
    ELSE /\ IsNaN(out.rows[r][registry[i].name])
         /\ \A w \in WeightsOn(registry[i].name) :
               /\ PolicyError(out, w) = NoError
               /\ IsNaN(WeightedCell(out.rows[r], PresentWeights(out, w)))

(* C25 as stated (SpecScore): for every z-score definition, a row alone in *)
(* its group gets NaN without coalesce and 0 with coalesce, and without    *)
(* coalesce every profile weighting the score gives the row a NaN weighted *)
(* score.                                                                  *)
C25_LoneRowNaNOrZero ==
    \A i \in Scored :
        registry[i].type = "zscore" =>
            \A r \in DOMAIN out.rows : AloneInPeriod(r) => LoneRowScore(i, r)

(* C25 amended (SpecScore): the same for the z-score definitions whose     *)
(* source feature is a column of the table.                                *)
C25_LoneRowOfPresentFeature ==
    \A i \in Scored :
        (registry[i].type = "zscore" /\ FeaturePresent(i)) =>
            \A r \in DOMAIN out.rows : AloneInPeriod(r) => LoneRowScore(i, r)

\* C25 witness: a row alone in its period with a number as its feature
\* value, scored without and with coalesce
C25_Witness ==
    /\ Returned
    /\ \E i, j \in Scored : \E r \in DOMAIN out.rows :
          /\ FeaturePresent(i) /\ FeaturePresent(j)
          /\ "coalesce" \notin Range(registry[i].adjustment)
          /\ "coalesce" \in Range(registry[j].adjustment)
          /\ AloneInPeriod(r)
          /\ Len(out.rows) > 1
          /\ ~IsNaN(out.rows[r][registry[i].feature])
          /\ IsNaN(out.rows[r][registry[i].name])
          /\ out.rows[r][registry[j].name] = Num(0)

----------------------------------------------------------------------------
(* Claims about profiles without a weighted column (SpecPolicy)            *)

\* the profiles none of whose weighted columns is in the table when the
\* loop reaches them; a profile without weights is one of them
Unweighted == {j \in DOMAIN registry : WeightsAt(j) = {}}

(* C26: a profile none of whose weighted columns exists in the table gets  *)
(* weighted score 0 and rank 1 in every row, and the call does not raise   *)
(* at that profile.                                                        *)
C26_NoColumnScoreZeroRankOne ==
    call.fn = "compute_profile_scores_from_df" =>
        \A j \in Unweighted :
            /\ j \in Profiled =>
                  \A i \in DOMAIN out.rows :
                      /\ ToFloat(ScoreOf(j, i)) = Num(0)
                      /\ RankOf(j, i) = IntCell(1)
            /\ ~(pc = "raised" /\ idx = j)
            /\ (pc = "loop" /\ idx = j) => ProfileError(out, registry[j]) = NoError

\* C26 witness: the call returned a table of several rows with two such
\* profiles, one without weights and one weighting an absent column
C26_Witness ==
    /\ call.fn = "compute_profile_scores_from_df"
    /\ pc = "done"
    /\ Len(out.rows) > 1
    /\ \E j, h \in Unweighted :
          /\ registry[j].weights = <<>>
          /\ registry[h].weights # <<>>
          /\ \A i \in DOMAIN out.rows : RankOf(j, i).n = 1 /\ RankOf(h, i).n = 1

====
